---------------------------- MODULE Spec2Model ----------------------------
(***************************************************************************)
(* A model of cclox, a tree-walking interpreter for Lox.                   *)
(*                                                                         *)
(* The interpreter is modelled as a big-step evaluator: one RECURSIVE      *)
(* operator per visitor method, threading the interpreter's state (the     *)
(* environments, the callables and instances on the heap, the output       *)
(* stream) through the evaluation.  The driver (Lox::RunFile,              *)
(* Lox::RunPrompt, Lox::Run) is the state machine Spec; the value          *)
(* operations of Object and of the interpreter's arithmetic are exercised  *)
(* on their own by SpecValue.                                              *)
(*                                                                         *)
(* Numbers.  TLC's integers are 32 bits wide, as is the language's integer *)
(* type, so an int32_t is a TLC integer and every overflow test is written *)
(* without leaving that range.  A double is modelled exactly, as the       *)
(* record [hi, lo, half] standing for hi * 2^16 + lo + half / 2: the       *)
(* doubles that are multiples of 1/2 of magnitude below 2^47.  Every such  *)
(* number is an IEEE double, and an IEEE operation whose exact result is   *)
(* such a number returns it, so on this domain the model's arithmetic is   *)
(* the machine's.  NaN, the infinities and roundings are outside it.       *)
(***************************************************************************)
EXTENDS Integers, Sequences, FiniteSets, TLC

VARIABLES calc, lox

vars == <<calc, lox>>

---------------------------------------------------------------------------
(* int32_t and double *)

IntMax == 2147483647
IntMin == -2147483647 - 1
Base == 2^16

\* The double hi * 2^16 + lo + hf / 2, for any integers lo and hf.
DMake(hi, lo, hf) ==
  LET l2 == lo + (hf \div 2)
  IN [hi |-> hi + (l2 \div Base), lo |-> l2 % Base, half |-> hf % 2]

DZero == [hi |-> 0, lo |-> 0, half |-> 0]

\* static_cast<double>(int32_t): exact.
ToDouble(i) == [hi |-> i \div Base, lo |-> i % Base, half |-> 0]

DAdd(x, y) == DMake(x.hi + y.hi, x.lo + y.lo, x.half + y.half)

DNeg(x) == DMake(-x.hi, -x.lo, -x.half)

DSub(x, y) == DAdd(x, DNeg(y))

DLess(x, y) ==
  \/ x.hi < y.hi
  \/ x.hi = y.hi /\ x.lo < y.lo
  \/ x.hi = y.hi /\ x.lo = y.lo /\ x.half < y.half

\* The double is a whole number in the range of int32_t.
DIsInt32(x) == x.half = 0 /\ x.hi >= -32768 /\ x.hi <= 32767

\* static_cast<int32_t>(double), for a double that is an int32_t.
DToInt(x) == x.hi * Base + x.lo

\* A whole number of magnitude below 2^16: a multiplier or divisor the
\* model's exact arithmetic can use.
DIsSmall(x) == x.half = 0 /\ (x.hi = 0 \/ (x.hi = -1 /\ x.lo > 0))

RECURSIVE DTimesNat(_, _)
DTimesNat(x, n) ==
  IF n = 0 THEN DZero
  ELSE LET h == DTimesNat(x, n \div 2)
           d == DAdd(h, h)
       IN IF n % 2 = 1 THEN DAdd(d, x) ELSE d

DTimesInt(x, k) == IF k >= 0 THEN DTimesNat(x, k) ELSE DNeg(DTimesNat(x, -k))

\* x * y, exact when one factor is a small whole number.
DMul(x, y) ==
  IF DIsSmall(y) THEN DTimesInt(x, DToInt(y)) ELSE DTimesInt(y, DToInt(x))

\* Both factors lie in the domain of DMul.
DMulExact(x, y) == (DIsSmall(y) \/ DIsSmall(x)) /\ (x.half = 0 \/ y.half = 0)

\* Twice the double as the pair <<q, r>> of the quotient and remainder of its
\* division by the positive k < 2^15 (long division, limb by limb).
DDivMod2(x, k) ==
  LET thi == 2 * x.hi + ((2 * x.lo + x.half) \div Base)
      tlo == (2 * x.lo + x.half) % Base
      qh == thi \div k
      rh == thi % k
      ql == (rh * Base + tlo) \div k
      rl == (rh * Base + tlo) % k
  IN [qhi |-> qh, qlo |-> ql, rem |-> rl]

\* x / y is exact in the model: y a whole number, 0 < |y| < 2^15, dividing
\* twice x.
DDivExact(x, y) ==
  /\ DIsSmall(y) /\ y # DZero
  /\ LET k == DToInt(y)
         m == IF k < 0 THEN -k ELSE k
     IN m < 32768 /\ DDivMod2(x, m).rem = 0

DDiv(x, y) ==
  LET k == DToInt(y)
      m == IF k < 0 THEN -k ELSE k
      q == DDivMod2(x, m)
      r == DMake(q.qhi \div 2, (q.qhi % 2) * (Base \div 2) + (q.qlo \div 2),
                 q.qlo % 2)
  IN IF k < 0 THEN DNeg(r) ELSE r

\* __builtin_add_overflow(a, b, &res): the sum does not fit int32_t.
AddOverflow(a, b) ==
  \/ b > 0 /\ a > IntMax - b
  \/ b < 0 /\ a < IntMin - b

\* __builtin_sub_overflow(a, b, &res).
SubOverflow(a, b) ==
  \/ b < 0 /\ a > IntMax + b
  \/ b > 0 /\ a < IntMin + b

\* The least integer that is at least IntMin / d, for d > 0.
CeilMinDiv(d) == IF IntMin % d = 0 THEN IntMin \div d ELSE (IntMin \div d) + 1

\* __builtin_mul_overflow(a, b, &res).
MulOverflow(a, b) ==
  IF a = 0 \/ b = 0 THEN FALSE
  ELSE IF a > 0 /\ b > 0 THEN a > IntMax \div b
  ELSE IF a > 0 /\ b < 0 THEN b < CeilMinDiv(a)
  ELSE IF a < 0 /\ b > 0 THEN a < CeilMinDiv(b)
  ELSE a = IntMin \/ b = IntMin \/ (-a) > IntMax \div (-b)

---------------------------------------------------------------------------
(* Object: the tagged variant                                              *)
(* std::variant<bool, nullptr_t, int32_t, double, string, LoxCallablePtr,  *)
(* LoxInstancePtr>.  Every value is a record of the same shape; n is the    *)
(* int32_t, the bool (1 or 0) or the pointer (0 is nullptr), d the double,  *)
(* s the string.                                                            *)

Nil == [tag |-> "nil", n |-> 0, d |-> DZero, s |-> ""]
BoolObject(b) == [tag |-> "bool", n |-> IF b THEN 1 ELSE 0, d |-> DZero, s |-> ""]
IntObject(i) == [tag |-> "int", n |-> i, d |-> DZero, s |-> ""]
DoubleObject(x) == [tag |-> "double", n |-> 0, d |-> x, s |-> ""]
StringObject(str) == [tag |-> "string", n |-> 0, d |-> DZero, s |-> str]
CallableObject(ptr) == [tag |-> "callable", n |-> ptr, d |-> DZero, s |-> ""]
InstanceObject(ptr) == [tag |-> "instance", n |-> ptr, d |-> DZero, s |-> ""]

IsInteger(v) == v.tag = "int"
IsDouble(v) == v.tag = "double"
IsString(v) == v.tag = "string"

\* std::optional<double>: [has, d].
AsDouble(v) ==
  IF v.tag = "double" THEN [has |-> TRUE, d |-> v.d]
  ELSE IF v.tag = "int" THEN [has |-> TRUE, d |-> ToDouble(v.n)]
  ELSE [has |-> FALSE, d |-> DZero]

\* Truthiness in which only nil and false are falsy.
IsTruthyNilFalse(v) ==
  CASE v.tag = "bool" -> v.n = 1
    [] v.tag = "nil" -> FALSE
    [] OTHER -> TRUE

IsTruthy(v) ==
  CASE v.tag = "bool" -> v.n = 1
    [] v.tag = "nil" -> FALSE
    [] v.tag = "int" -> v.n # 0
    [] v.tag = "double" -> v.d # DZero
    [] v.tag = "string" -> v.s # ""
    [] v.tag = "callable" -> v.n # 0
    [] v.tag = "instance" -> v.n # 0

---------------------------------------------------------------------------
(* The interpreter's operators on values.  Each returns [kind, val, msg]:  *)
(* kind "ok" with the value, "error" with the RuntimeError's message, or    *)
(* "ub" where the C++ has undefined behaviour.                              *)

Value(v) == [kind |-> "ok", val |-> v, msg |-> ""]
Throw(m) == [kind |-> "error", val |-> Nil, msg |-> m]
Undefined == [kind |-> "ub", val |-> Nil, msg |-> ""]

\* Equality as operator== of std::variant alone, without the arithmetic
\* case.
EqualVariant(left, right) == left = right

Equal(left, right) ==
  LET left_num == AsDouble(left)
      right_num == AsDouble(right)
  IN IF left_num.has /\ right_num.has THEN left_num.d = right_num.d
     ELSE left = right

\* [has, l, r]: the operands as doubles, or the RuntimeError.
GetNumberOperands(left, right) ==
  [has |-> AsDouble(left).has /\ AsDouble(right).has,
   l |-> AsDouble(left).d, r |-> AsDouble(right).d]

OperandsMustBeNumbers == "RuntimeError: Operands must be numbers."

Greater(left, right) ==
  LET p == GetNumberOperands(left, right)
  IN IF ~p.has THEN Throw(OperandsMustBeNumbers)
     ELSE Value(BoolObject(DLess(p.r, p.l)))

Less(left, right) ==
  LET p == GetNumberOperands(left, right)
  IN IF ~p.has THEN Throw(OperandsMustBeNumbers)
     ELSE Value(BoolObject(DLess(p.l, p.r)))

\* `!Greater(...)` and `!Less(...)` of the binary visitor.
Not(r) == IF r.kind = "ok" THEN Value(BoolObject(r.val.n = 0)) ELSE r

\* The int32_t a whole double wraps to.
Wrap(x) == (((x.hi + 32768) % Base) - 32768) * Base + x.lo

\* Add with the integer sum left unchecked: it wraps.
AddUnchecked(left, right) ==
  IF IsString(left) /\ IsString(right) THEN Value(StringObject(left.s \o right.s))
  ELSE LET left_num == AsDouble(left)
           right_num == AsDouble(right)
       IN IF left_num.has /\ right_num.has
          THEN IF IsInteger(left) /\ IsInteger(right)
               THEN Value(IntObject(Wrap(DAdd(left_num.d, right_num.d))))
               ELSE Value(DoubleObject(DAdd(left_num.d, right_num.d)))
          ELSE Throw("RuntimeError: Operands must be two numbers or two strings.")

Add(left, right) ==
  IF IsString(left) /\ IsString(right) THEN Value(StringObject(left.s \o right.s))
  ELSE LET left_num == AsDouble(left)
           right_num == AsDouble(right)
       IN IF left_num.has /\ right_num.has
          THEN IF IsInteger(left) /\ IsInteger(right) /\ ~AddOverflow(left.n, right.n)
               THEN Value(IntObject(left.n + right.n))
               ELSE Value(DoubleObject(DAdd(left_num.d, right_num.d)))
          ELSE Throw("RuntimeError: Operands must be two numbers or two strings.")

Subtract(left, right) ==
  LET p == GetNumberOperands(left, right)
  IN IF ~p.has THEN Throw(OperandsMustBeNumbers)
     ELSE IF IsInteger(left) /\ IsInteger(right) /\ ~SubOverflow(left.n, right.n)
          THEN Value(IntObject(left.n - right.n))
          ELSE Value(DoubleObject(DSub(p.l, p.r)))

Multiply(left, right) ==
  LET p == GetNumberOperands(left, right)
  IN IF ~p.has THEN Throw(OperandsMustBeNumbers)
     ELSE IF IsInteger(left) /\ IsInteger(right) /\ ~MulOverflow(left.n, right.n)
          THEN Value(IntObject(left.n * right.n))
          ELSE Value(DoubleObject(DMul(p.l, p.r)))

\* int32_t / int32_t truncates toward zero; a zero divisor and
\* INT_MIN / -1 are undefined behaviour.
IntQuotient(a, b) ==
  LET toward_zero(m) == IF a % m # 0 /\ a < 0 THEN (a \div m) + 1 ELSE a \div m
  IN IF b > 0 THEN toward_zero(b)
     ELSE IF b = IntMin THEN (IF a = IntMin THEN 1 ELSE 0)
     ELSE -toward_zero(-b)

Divide(left, right) ==
  LET p == GetNumberOperands(left, right)
  IN IF ~p.has THEN Throw(OperandsMustBeNumbers)
     ELSE IF IsInteger(left) /\ IsInteger(right)
          THEN IF right.n = 0 \/ (left.n = IntMin /\ right.n = -1) THEN Undefined
               ELSE Value(IntObject(IntQuotient(left.n, right.n)))
          ELSE Value(DoubleObject(DDiv(p.l, p.r)))

\* The switch of Interpreter::operator()(const BinaryExprPtr&).
BinaryOperator(op, left, right) ==
  CASE op = "!=" -> Value(BoolObject(~Equal(left, right)))
    [] op = "==" -> Value(BoolObject(Equal(left, right)))
    [] op = ">" -> Greater(left, right)
    [] op = ">=" -> Not(Less(left, right))
    [] op = "<" -> Less(left, right)
    [] op = "<=" -> Not(Greater(left, right))
    [] op = "-" -> Subtract(left, right)
    [] op = "+" -> Add(left, right)
    [] op = "/" -> Divide(left, right)
    [] op = "*" -> Multiply(left, right)

\* The switch of Interpreter::operator()(const UnaryExprPtr&).
UnaryOperator(op, right) ==
  CASE op = "!" -> Value(BoolObject(~IsTruthy(right)))
    [] op = "-" -> Subtract(IntObject(0), right)

---------------------------------------------------------------------------
(* The syntax tree (expr.h, stmt.h).  A node is a record with its kind k   *)
(* and its fields.  A Variable, Assign or This node carries an id: the      *)
(* node's identity, the key of the interpreter's locals_ map.               *)

Literal(value) == [k |-> "literal", value |-> value]
Variable(id, name) == [k |-> "variable", id |-> id, name |-> name]
Assign(id, name, value) == [k |-> "assign", id |-> id, name |-> name, value |-> value]
Binary(left, op, right) == [k |-> "binary", left |-> left, op |-> op, right |-> right]
Logical(left, op, right) == [k |-> "logical", left |-> left, op |-> op, right |-> right]
Unary(op, right) == [k |-> "unary", op |-> op, right |-> right]
Grouping(expression) == [k |-> "grouping", expression |-> expression]
Call(callee, arguments) == [k |-> "call", callee |-> callee, arguments |-> arguments]
Get(object, name) == [k |-> "get", object |-> object, name |-> name]
Set(object, name, value) == [k |-> "set", object |-> object, name |-> name, value |-> value]
This(id) == [k |-> "this", id |-> id]

BlockStmt(statements) == [k |-> "block", statements |-> statements]
ClassStmt(name, methods) == [k |-> "class", name |-> name, methods |-> methods]
ExprStmt(expression) == [k |-> "expr", expression |-> expression]
FunctionStmt(name, params, body) ==
  [k |-> "function", name |-> name, params |-> params, body |-> body]
IfStmt(condition, then_branch) ==
  [k |-> "if", condition |-> condition, then_branch |-> then_branch,
   has_else |-> FALSE, else_branch |-> <<>>]
IfElseStmt(condition, then_branch, else_branch) ==
  [k |-> "if", condition |-> condition, then_branch |-> then_branch,
   has_else |-> TRUE, else_branch |-> else_branch]
PrintStmt(expression) == [k |-> "print", expression |-> expression]
ReturnStmt(value) == [k |-> "return", has_value |-> TRUE, value |-> value]
ReturnNothing == [k |-> "return", has_value |-> FALSE, value |-> <<>>]
VarStmt(name, initializer) ==
  [k |-> "var", name |-> name, has_initializer |-> TRUE, initializer |-> initializer]
VarDecl(name) ==
  [k |-> "var", name |-> name, has_initializer |-> FALSE, initializer |-> <<>>]
WhileStmt(condition, body) == [k |-> "while", condition |-> condition, body |-> body]

\* `StmtPtr{}`, what Parser::ParseDeclaration returns for a declaration it
\* could not parse: a null BlockStmtPtr.
NullStmt == [k |-> "null"]

---------------------------------------------------------------------------
(* The interpreter's state.                                                 *)
(*   envs         the Environment objects; an Environment's identity is     *)
(*                its index, 0 is the null pointer                          *)
(*   environment_ the current environment                                   *)
(*   callables    the LoxCallable objects (functions, classes, clock)       *)
(*   instances    the LoxInstance objects                                   *)
(*   locals_      the resolution map: node id -> depth                      *)
(*   output_      the chunks written to the output stream                   *)
(*   run          the number of the Lox::Run in progress                    *)
(*   now          what the clock reads                                      *)
(*   fuel         what is left of the model's bound on loop iterations and  *)
(*                calls of one run                                          *)
(*   blocks       history: one record per ended ExecuteBlockStatement       *)
(*   binds        history: one record per LoxFunction::Bind                 *)
(*   news         history: one record per ended LoxClass::Call              *)
(*   calls        history: one record per ended LoxFunction::Call           *)
(*   lookups      history: one record per use of an entry of locals_        *)
(*   freed        the LoxClass objects that have been destroyed              *)

MaxFuel == 6

Globals == 1

NoMap == [x \in {} |-> Nil]

Put(f, key, v) == [x \in (DOMAIN f) \cup {key} |-> IF x = key THEN v ELSE f[x]]

\* `const FunctionStmtPtr& declaration_`: a reference to a node of the
\* statements vector of the Run numbered run; it dangles once that Run has
\* returned.
FunctionStmtRef(run, stmt) == [run |-> run, stmt |-> stmt]

NoDeclaration == FunctionStmtRef(0, FunctionStmt("", <<>>, <<>>))

LoxFunction(declaration, closure, is_initializer) ==
  [kind |-> "function", declaration |-> declaration, closure |-> closure,
   is_initializer |-> is_initializer, name |-> "",
   methods |-> NoMap, superclass |-> 0]

LoxClass(name, superclass, methods) ==
  [kind |-> "class", declaration |-> NoDeclaration, closure |-> 0,
   is_initializer |-> FALSE, name |-> name, methods |-> methods,
   superclass |-> superclass]

NativeClockFunction ==
  [kind |-> "native", declaration |-> NoDeclaration, closure |-> 0,
   is_initializer |-> FALSE, name |-> "clock", methods |-> NoMap,
   superclass |-> 0]

\* Interpreter::Interpreter(): the globals hold clock.
NewInterpreter ==
  [envs |-> << [values |-> Put(NoMap, "clock", CallableObject(1)), enclosing |-> 0] >>,
   environment_ |-> Globals,
   callables |-> << NativeClockFunction >>,
   instances |-> << >>,
   locals_ |-> [x \in {} |-> 0],
   output_ |-> << >>,
   run |-> 0,
   now |-> DZero,
   fuel |-> MaxFuel,
   blocks |-> << >>,
   binds |-> << >>,
   news |-> << >>,
   calls |-> << >>,
   lookups |-> << >>,
   freed |-> {}]

\* What an evaluation or an execution ends with: the state it leaves and
\*   sig "ok"      it returned (val: an expression's value)
\*       "error"   it threw RuntimeError (msg: what())
\*       "return"  it threw Return (has, val: the optional value)
\*       "ub"      it ran into undefined behaviour
\*       "fuel"    it ran past the model's bound MaxFuel
Ok(in, v) == [in |-> in, sig |-> "ok", val |-> v, has |-> TRUE, msg |-> ""]
Done(in) == Ok(in, Nil)
Error(in, m) == [in |-> in, sig |-> "error", val |-> Nil, has |-> FALSE, msg |-> m]
Returning(in, has, v) == [in |-> in, sig |-> "return", val |-> v, has |-> has, msg |-> ""]
Ub(in) == [in |-> in, sig |-> "ub", val |-> Nil, has |-> FALSE, msg |-> ""]
OutOfFuel(in) == [in |-> in, sig |-> "fuel", val |-> Nil, has |-> FALSE, msg |-> ""]

\* The result [kind, val, msg] of a value operator, in state in.
Lift(in, r) ==
  CASE r.kind = "ok" -> Ok(in, r.val)
    [] r.kind = "error" -> Error(in, r.msg)
    [] r.kind = "ub" -> Ub(in)

---------------------------------------------------------------------------
(* Environment (environment.cpp) *)

\* A new environment that is given no enclosing environment.
NewEnvironmentDetached(in, enclosing) ==
  [in EXCEPT !.envs = Append(@, [values |-> NoMap, enclosing |-> 0])]

\* std::make_shared<Environment>(enclosing): the state with the new
\* environment, whose identity is Len(envs) + 1.
NewEnvironment(in, enclosing) ==
  [in EXCEPT !.envs = Append(@, [values |-> NoMap, enclosing |-> enclosing])]

Define(in, env, name, value) ==
  [in EXCEPT !.envs[env].values = Put(@, name, value)]

UndefinedVariable(name) == "RuntimeError: Undefined variable '" \o name \o "'."

RECURSIVE EnvironmentGet(_, _, _)
EnvironmentGet(in, env, name) ==
  IF name \in DOMAIN in.envs[env].values THEN Value(in.envs[env].values[name])
  ELSE IF in.envs[env].enclosing # 0
       THEN EnvironmentGet(in, in.envs[env].enclosing, name)
       ELSE Throw(UndefinedVariable(name))

\* Environment::Assign without the `return` after the call on the enclosing
\* environment: the throw at the end is reached whenever the name is not in
\* the environment itself.
RECURSIVE EnvironmentAssignEarlier(_, _, _, _)
EnvironmentAssignEarlier(in, env, name, value) ==
  IF name \in DOMAIN in.envs[env].values THEN Done(Define(in, env, name, value))
  ELSE IF in.envs[env].enclosing # 0
       THEN Error(EnvironmentAssignEarlier(in, in.envs[env].enclosing, name, value).in,
                  UndefinedVariable(name))
       ELSE Error(in, UndefinedVariable(name))

RECURSIVE EnvironmentAssign(_, _, _, _)
EnvironmentAssign(in, env, name, value) ==
  IF name \in DOMAIN in.envs[env].values THEN Done(Define(in, env, name, value))
  ELSE IF in.envs[env].enclosing # 0
       THEN EnvironmentAssign(in, in.envs[env].enclosing, name, value)
       ELSE Error(in, UndefinedVariable(name))

\* The environment `distance` enclosing links above env; following the link
\* of the null pointer is undefined behaviour, shown as 0.
RECURSIVE Ancestor(_, _, _)
Ancestor(in, env, distance) ==
  IF distance = 0 \/ env = 0 THEN env
  ELSE Ancestor(in, in.envs[env].enclosing, distance - 1)

GetAt(in, env, distance, name) ==
  IF Ancestor(in, env, distance) = 0 THEN Undefined
  ELSE EnvironmentGet(in, Ancestor(in, env, distance), name)

AssignAt(in, env, distance, name, value) ==
  IF Ancestor(in, env, distance) = 0 THEN Ub(in)
  ELSE EnvironmentAssign(in, Ancestor(in, env, distance), name, value)

---------------------------------------------------------------------------
(* String forms *)

Digit(d) == <<"0", "1", "2", "3", "4", "5", "6", "7", "8", "9">>[d + 1]

RECURSIVE NatToString(_)
NatToString(n) ==
  IF n < 10 THEN Digit(n) ELSE NatToString(n \div 10) \o Digit(n % 10)

\* The digits of a negative number, from the number itself (-INT_MIN is
\* not an int32_t).
RECURSIVE NegToString(_)
NegToString(n) ==
  LET last == (10 - (n % 10)) % 10
      rest == (n + last) \div 10
  IN IF rest = 0 THEN Digit(last) ELSE NegToString(rest) \o Digit(last)

\* operator<<(std::ostream&, int32_t).
IntToString(i) == IF i >= 0 THEN NatToString(i) ELSE "-" \o NegToString(i)

\* The decimal digits of the whole number hi * 2^16 + lo >= 0, most
\* significant first (long division by ten, limb by limb).
RECURSIVE DigitsOf(_, _)
DigitsOf(hi, lo) ==
  LET t == (hi % 10) * Base + lo
      qhi == hi \div 10
      qlo == t \div 10
  IN IF qhi = 0 /\ qlo = 0 THEN << t % 10 >>
     ELSE Append(DigitsOf(qhi, qlo), t % 10)

RECURSIVE DigitString(_)
DigitString(ds) ==
  IF ds = << >> THEN "" ELSE Digit(Head(ds)) \o DigitString(Tail(ds))

RECURSIVE StripZeros(_)
StripZeros(ds) ==
  IF ds # << >> /\ ds[Len(ds)] = 0 THEN StripZeros(SubSeq(ds, 1, Len(ds) - 1))
  ELSE ds

RECURSIVE DigitsToNat(_)
DigitsToNat(ds) ==
  IF ds = << >> THEN 0
  ELSE 10 * DigitsToNat(SubSeq(ds, 1, Len(ds) - 1)) + ds[Len(ds)]

\* The mantissa m (six digits or, after a carry, seven) and decimal exponent
\* e in scientific form: d.ddddde+XX, trailing zeros dropped.
Scientific(m, e) ==
  LET carried == m = 1000000
      ds == IF carried THEN << 1 >> ELSE StripZeros(DigitsOf(0, m))
      x == IF carried THEN e + 1 ELSE e
      frac == IF Len(ds) = 1 THEN "" ELSE "." \o DigitString(Tail(ds))
  IN Digit(Head(ds)) \o frac \o "e+" \o (IF x < 10 THEN "0" ELSE "") \o NatToString(x)

\* The digits ds of a whole number and one more half, rounded to six
\* significant digits, ties to even.
RoundToSix(ds, half) ==
  LET m == DigitsToNat(SubSeq(ds, 1, 6))
      rest == SubSeq(ds, 7, Len(ds))
      later == \E i \in 2..Len(rest) : rest[i] # 0
      first == IF rest = << >> THEN 0 ELSE rest[1]
      up == IF rest = << >> THEN half = 1 /\ m % 2 = 1
            ELSE \/ first > 5
                 \/ first = 5 /\ (later \/ half = 1 \/ m % 2 = 1)
  IN IF up THEN m + 1 ELSE m

\* operator<<(std::ostream&, double) of a double that is not negative: %g
\* with six significant digits.
NonNegativeToString(x) ==
  LET ds == DigitsOf(x.hi, x.lo)
      n == Len(ds)
  IN IF n <= 5 THEN
       IF x.half = 0 THEN DigitString(ds)
       ELSE DigitString(ds) \o ".5"
     ELSE LET m == RoundToSix(ds, x.half)
          IN IF n = 6 /\ m < 1000000 THEN NatToString(m)
             ELSE Scientific(m, n - 1)

DoubleToString(x) ==
  IF DLess(x, DZero) THEN "-" \o NonNegativeToString(DNeg(x))
  ELSE NonNegativeToString(x)

---------------------------------------------------------------------------
(* LoxClass, LoxInstance and LoxFunction::Bind *)

\* The methods of the class itself only.
FindMethodOwn(in, klass, name) ==
  IF name \in DOMAIN in.callables[klass].methods
  THEN in.callables[klass].methods[name]
  ELSE 0

\* LoxClass::FindMethod: the callable, or 0 for nullptr.
RECURSIVE FindMethod(_, _, _)
FindMethod(in, klass, name) ==
  IF name \in DOMAIN in.callables[klass].methods
  THEN in.callables[klass].methods[name]
  ELSE IF in.callables[klass].superclass # 0
       THEN FindMethod(in, in.callables[klass].superclass, name)
       ELSE 0

\* LoxCallable::Arity of the three kinds of callable.
Arity(in, callee) ==
  CASE in.callables[callee].kind = "function" ->
         Len(in.callables[callee].declaration.stmt.params)
    [] in.callables[callee].kind = "class" ->
         IF FindMethod(in, callee, "init") # 0
         THEN Len(in.callables[FindMethod(in, callee, "init")].declaration.stmt.params)
         ELSE 0
    [] in.callables[callee].kind = "native" -> 0

\* The callable reads through a declaration_ whose Run has returned when it
\* is asked its arity, its name or to run.
Dangling(in, callee) ==
  CASE in.callables[callee].kind = "function" ->
         in.callables[callee].declaration.run # in.run
    [] in.callables[callee].kind = "class" ->
         /\ FindMethod(in, callee, "init") # 0
         /\ in.callables[FindMethod(in, callee, "init")].declaration.run # in.run
    [] in.callables[callee].kind = "native" -> FALSE

\* LoxInstance::Create(klass): the state with the new instance, whose
\* identity is Len(instances) + 1.
CreateInstance(in, klass) ==
  [in EXCEPT !.instances = Append(@, [klass |-> klass, fields |-> NoMap])]

\* std::make_shared<LoxInstance>(instance): a new LoxInstance
\* copy-constructed from the one given.
CopyInstance(in, instance) ==
  [in EXCEPT !.instances = Append(@, in.instances[instance])]

\* LoxFunction::Bind(instance): [in, ptr], the state with the bound method
\* and the bound method.
Bind(in, method, instance) ==
  LET in1 == NewEnvironment(in, in.callables[method].closure)
      environment == Len(in1.envs)
      in2 == CopyInstance(in1, instance)
      this == Len(in2.instances)
      in3 == Define(in2, environment, "this", InstanceObject(this))
      bound == LoxFunction(in.callables[method].declaration, environment,
                           in.callables[method].is_initializer)
      in4 == [in3 EXCEPT !.callables = Append(@, bound),
                         !.binds = Append(@, [instance |-> instance, this |-> this,
                                              method |-> Len(in3.callables) + 1])]
  IN [in |-> in4, ptr |-> Len(in4.callables)]

LoxFunctionToString(f) == "<fn " \o f.declaration.stmt.name \o ">"

CallableToString(c) ==
  CASE c.kind = "function" -> LoxFunctionToString(c)
    [] c.kind = "class" -> c.name
    [] c.kind = "native" -> "<native fn>"

LoxInstanceToString(in, instance) ==
  in.callables[in.instances[instance].klass].name \o " instance"

\* Object::ToString.
ObjectToString(in, v) ==
  CASE v.tag = "nil" -> "nil"
    [] v.tag = "bool" -> IF v.n = 1 THEN "true" ELSE "false"
    [] v.tag = "callable" -> CallableToString(in.callables[v.n])
    [] v.tag = "instance" -> LoxInstanceToString(in, v.n)
    [] v.tag = "int" -> IntToString(v.n)
    [] v.tag = "double" -> DoubleToString(v.d)
    [] v.tag = "string" -> v.s

\* Object::ToString reads through a dangling declaration_, or through the
\* klass_ of an instance whose class has been destroyed.
ToStringUndefined(in, v) ==
  \/ /\ v.tag = "callable"
     /\ in.callables[v.n].kind = "function"
     /\ Dangling(in, v.n)
  \/ /\ v.tag = "instance"
     /\ in.instances[v.n].klass \in in.freed

\* LoxInstance::GetField: [in, kind, val, msg].  klass_ is `const LoxClass&`:
\* the method is looked up through a dangling reference once the class has
\* been destroyed.
GetField(in, instance, field_name) ==
  IF field_name \in DOMAIN in.instances[instance].fields
  THEN Ok(in, in.instances[instance].fields[field_name])
  ELSE IF in.instances[instance].klass \in in.freed THEN Ub(in)
  ELSE IF FindMethod(in, in.instances[instance].klass, field_name) # 0
       THEN LET b == Bind(in, FindMethod(in, in.instances[instance].klass, field_name),
                          instance)
            IN Ok(b.in, CallableObject(b.ptr))
       ELSE Error(in, "RuntimeError: Undefined property '" \o field_name \o "'.")

SetField(in, instance, field_name, value) ==
  [in EXCEPT !.instances[instance].fields = Put(@, field_name, value)]

\* History: the node id, resolved to locals_[id], is being evaluated in
\* environment_; target is the environment that many links above it, and
\* bound tells whether that one binds the name.
LogLookUp(in, name, id) ==
  LET target == Ancestor(in, in.environment_, in.locals_[id])
  IN [in EXCEPT !.lookups =
        Append(@, [id |-> id, name |-> name, distance |-> in.locals_[id],
                   environment |-> in.environment_, target |-> target,
                   bound |-> target # 0 /\ name \in DOMAIN in.envs[target].values])]

\* Interpreter::LookUpVariable.
LookUpVariable(in, name, id) ==
  IF id \in DOMAIN in.locals_
  THEN Lift(LogLookUp(in, name, id),
            GetAt(in, in.environment_, in.locals_[id], name))
  ELSE Lift(in, EnvironmentGet(in, Globals, name))

\* The end of the earlier Interpreter::ExecuteBlockStatement, which catches
\* RuntimeError only: a Return leaves environment_ as the block set it.
LeaveBlockEarlier(r, previous, environment) ==
  IF r.sig \in {"ok", "error"}
  THEN [r EXCEPT !.in.environment_ = previous]
  ELSE r

\* The end of Interpreter::ExecuteBlockStatement: r is how the statements
\* ended; the block ran in environment, entered from previous.
LeaveBlock(r, previous, environment) ==
  IF r.sig \in {"ok", "error", "return"}
  THEN [r EXCEPT !.in.environment_ = previous]
  ELSE r

\* The history of blocks, one record longer: the block that ran in
\* environment, entered from previous, has ended as r.
LogBlock(r, previous, environment) ==
  IF r.sig \in {"ok", "error", "return"}
  THEN [r EXCEPT !.in.blocks = Append(@, [environment |-> environment,
                                          previous |-> previous,
                                          after |-> r.in.environment_,
                                          exit |-> r.sig])]
  ELSE r

\* LoxFunction::Call without its catch clause: the Return leaves the call.
FunctionResultUncaught(r, callee) ==
  LET f == r.in.callables[callee]
      this == Lift(r.in, GetAt(r.in, f.closure, 0, "this"))
  IN CASE r.sig = "ok" -> IF f.is_initializer THEN this ELSE Ok(r.in, Nil)
       [] OTHER -> r

\* The end of LoxFunction::Call: r is how ExecuteBlockStatement ended.
FunctionResult(r, callee) ==
  LET f == r.in.callables[callee]
      this == Lift(r.in, GetAt(r.in, f.closure, 0, "this"))
  IN CASE r.sig = "return" ->
            IF f.is_initializer THEN this
            ELSE IF r.has THEN Ok(r.in, r.val)
            ELSE Ok(r.in, Nil)
       [] r.sig = "ok" -> IF f.is_initializer THEN this ELSE Ok(r.in, Nil)
       [] OTHER -> r

\* The history of calls, one record longer: the body of callee has ended
\* as r and LoxFunction::Call has ended as given.
LogCall(given, r, callee) ==
  IF r.sig \in {"ok", "error", "return"}
  THEN [given EXCEPT !.in.calls = Append(@, [callee |-> callee,
                                            exit |-> r.sig,
                                            has |-> r.has,
                                            returned |-> r.val,
                                            sig |-> given.sig,
                                            val |-> given.val])]
  ELSE given

\* The method map of Interpreter::operator()(const ClassStmtPtr&), built
\* method by method: [in, methods].  emplace keeps the first of two methods
\* of one name.
RECURSIVE ClassMethods(_, _, _, _)
ClassMethods(in, method_list, i, methods) ==
  IF i > Len(method_list) THEN [in |-> in, methods |-> methods]
  ELSE LET method == method_list[i]
           function == LoxFunction(FunctionStmtRef(in.run, method), in.environment_,
                                   method.name = "init")
           in1 == [in EXCEPT !.callables = Append(@, function)]
       IN ClassMethods(in1, method_list, i + 1,
                       IF method.name \in DOMAIN methods THEN methods
                       ELSE Put(methods, method.name, Len(in1.callables)))

\* The parameters of LoxFunction::Call, defined one by one.
RECURSIVE DefineParams(_, _, _, _, _)
DefineParams(in, env, params, arguments, i) ==
  IF i > Len(params) THEN in
  ELSE DefineParams(Define(in, env, params[i], arguments[i]), env, params,
                    arguments, i + 1)

---------------------------------------------------------------------------
(* The visitors of Interpreter, LoxFunction::Call and LoxClass::Call *)

\* std::visit(*this, node): the visitor that the alternative held by the
\* expression (of = "expr") or the statement (of = "stmt") selects.
RECURSIVE Visit(_, _, _)
RECURSIVE EvaluateArguments(_, _, _, _)
RECURSIVE ExecuteStatements(_, _, _)
RECURSIVE ExecuteWhile(_, _)

\* Interpreter::EvaluateExpression.
EvaluateExpression(in, expr) == Visit(in, "expr", expr)

\* Interpreter::ExecuteStatement.
ExecuteStatement(in, stmt) == Visit(in, "stmt", stmt)

\* The arguments evaluated from the last to the first.
RECURSIVE EvaluateArgumentsBackwards(_, _, _, _)
EvaluateArgumentsBackwards(in, exprs, i, arguments) ==
  IF i > Len(exprs) THEN [r |-> Done(in), arguments |-> arguments]
  ELSE LET a == EvaluateExpression(in, exprs[Len(exprs) + 1 - i])
       IN IF a.sig # "ok" THEN [r |-> a, arguments |-> arguments]
          ELSE EvaluateArgumentsBackwards(a.in, exprs, i + 1, << a.val >> \o arguments)

\* The arguments of a call, left to right: the result's val is unused, the
\* values are [in, r, arguments].
EvaluateArguments(in, exprs, i, arguments) ==
  IF i > Len(exprs) THEN [r |-> Done(in), arguments |-> arguments]
  ELSE LET a == EvaluateExpression(in, exprs[i])
       IN IF a.sig # "ok" THEN [r |-> a, arguments |-> arguments]
          ELSE EvaluateArguments(a.in, exprs, i + 1, Append(arguments, a.val))

\* `for (const auto& statement : statements) ExecuteStatement(statement);`
\* from statement i on.
ExecuteStatements(in, statements, i) ==
  IF i > Len(statements) THEN Done(in)
  ELSE LET r == ExecuteStatement(in, statements[i])
       IN IF r.sig # "ok" THEN r ELSE ExecuteStatements(r.in, statements, i + 1)

\* Interpreter::ExecuteBlockStatement.
ExecuteBlockStatement(in, statements, environment) ==
  LET previous == in.environment_
      r == ExecuteStatements([in EXCEPT !.environment_ = environment], statements, 1)
  IN LogBlock(LeaveBlock(r, previous, environment), previous, environment)

\* The end of LoxFunction::Call, and its record in the history.
EndCall(r, callee) == LogCall(FunctionResult(r, callee), r, callee)

\* LoxFunction::Call; every call uses one unit of fuel.
LoxFunctionCall(in, callee, arguments) ==
  IF in.fuel = 0 THEN OutOfFuel(in)
  ELSE LET f == in.callables[callee]
           in1 == NewEnvironment([in EXCEPT !.fuel = @ - 1], f.closure)
           environment == Len(in1.envs)
           in2 == DefineParams(in1, environment, f.declaration.stmt.params, arguments, 1)
       IN EndCall(ExecuteBlockStatement(in2, f.declaration.stmt.body, environment),
                  callee)

\* LoxClass::Call.
LoxClassCall(in, callee, arguments) ==
  LET in1 == CreateInstance(in, callee)
      instance == Len(in1.instances)
      initializer == FindMethod(in1, callee, "init")
      b == Bind(in1, initializer, instance)
      r == IF initializer # 0 THEN LoxFunctionCall(b.in, b.ptr, arguments)
           ELSE Done(in1)
  IN IF r.sig # "ok" THEN r
     ELSE Ok([r.in EXCEPT !.news = Append(@, [klass |-> callee,
                                               instance |-> instance,
                                               initializer |-> initializer,
                                               this |-> IF initializer # 0
                                                        THEN b.in.binds[Len(b.in.binds)].this
                                                        ELSE instance])],
             InstanceObject(instance))

\* LoxCallable::Call.
CallCallable(in, callee, arguments) ==
  CASE in.callables[callee].kind = "function" -> LoxFunctionCall(in, callee, arguments)
    [] in.callables[callee].kind = "class" -> LoxClassCall(in, callee, arguments)
    [] in.callables[callee].kind = "native" -> Ok(in, DoubleObject(in.now))

\* Interpreter::operator()(const CallExprPtr&), after the callee and the
\* arguments have been evaluated.
CallValue(in, callee, arguments) ==
  IF callee.tag # "callable"
  THEN Error(in, "RuntimeError: Can only call functions and classes.")
  ELSE IF Dangling(in, callee.n) THEN Ub(in)
  ELSE IF Len(arguments) # Arity(in, callee.n)
  THEN Error(in, "RuntimeError: Expected " \o NatToString(Arity(in, callee.n))
                   \o " arguments but got " \o NatToString(Len(arguments)) \o ".")
  ELSE CallCallable(in, callee.n, arguments)

\* The expression visitors, Interpreter::operator()(const ...ExprPtr&).
VisitExpr(in, expr) ==
  CASE expr.k = "literal" -> Ok(in, expr.value)
    [] expr.k = "grouping" -> EvaluateExpression(in, expr.expression)
    [] expr.k = "variable" -> LookUpVariable(in, expr.name, expr.id)
    [] expr.k = "this" -> LookUpVariable(in, "this", expr.id)
    [] expr.k = "assign" ->
         LET value == EvaluateExpression(in, expr.value)
             a == IF expr.id \in DOMAIN value.in.locals_
                  THEN AssignAt(LogLookUp(value.in, expr.name, expr.id),
                                value.in.environment_,
                                value.in.locals_[expr.id], expr.name, value.val)
                  ELSE EnvironmentAssign(value.in, Globals, expr.name, value.val)
         IN IF value.sig # "ok" THEN value
            ELSE IF a.sig # "ok" THEN a
            ELSE Ok(a.in, value.val)
    [] expr.k = "binary" ->
         LET left == EvaluateExpression(in, expr.left)
             right == EvaluateExpression(left.in, expr.right)
         IN IF left.sig # "ok" THEN left
            ELSE IF right.sig # "ok" THEN right
            ELSE Lift(right.in, BinaryOperator(expr.op, left.val, right.val))
    [] expr.k = "call" ->
         LET callee == EvaluateExpression(in, expr.callee)
             args == EvaluateArguments(callee.in, expr.arguments, 1, << >>)
         IN IF callee.sig # "ok" THEN callee
            ELSE IF args.r.sig # "ok" THEN args.r
            ELSE CallValue(args.r.in, callee.val, args.arguments)
    [] expr.k = "get" ->
         LET object == EvaluateExpression(in, expr.object)
         IN IF object.sig # "ok" THEN object
            ELSE IF object.val.tag = "instance"
            THEN GetField(object.in, object.val.n, expr.name)
            ELSE Error(object.in, "RuntimeError: Only instances have properties.")
    [] expr.k = "logical" ->
         LET left == EvaluateExpression(in, expr.left)
         IN IF left.sig # "ok" THEN left
            ELSE IF expr.op = "or" /\ IsTruthy(left.val) THEN left
            ELSE IF expr.op # "or" /\ ~IsTruthy(left.val) THEN left
            ELSE EvaluateExpression(left.in, expr.right)
    [] expr.k = "set" ->
         LET object == EvaluateExpression(in, expr.object)
             value == EvaluateExpression(object.in, expr.value)
         IN IF object.sig # "ok" THEN object
            ELSE IF object.val.tag # "instance"
            THEN Error(object.in, "RuntimeError: Only instances have fields.")
            ELSE IF value.sig # "ok" THEN value
            ELSE Ok(SetField(value.in, object.val.n, expr.name, value.val), value.val)
    [] expr.k = "unary" ->
         LET right == EvaluateExpression(in, expr.right)
         IN IF right.sig # "ok" THEN right
            ELSE Lift(right.in, UnaryOperator(expr.op, right.val))

\* Interpreter::operator()(const PrintStmtPtr&), after the expression has
\* been evaluated.
PrintValue(in, value) ==
  IF ToStringUndefined(in, value) THEN Ub(in)
  ELSE Done([in EXCEPT !.output_ = Append(@, ObjectToString(in, value))])

\* Interpreter::operator()(const ClassStmtPtr&).
ExecuteClass(in, stmt) ==
  LET in1 == Define(in, in.environment_, stmt.name, Nil)
      m == ClassMethods(in1, stmt.methods, 1, NoMap)
      in2 == [m.in EXCEPT !.callables = Append(@, LoxClass(stmt.name, 0, m.methods))]
  IN EnvironmentAssign(in2, in2.environment_, stmt.name,
                       CallableObject(Len(in2.callables)))

\* Interpreter::operator()(const FunctionStmtPtr&).
ExecuteFunction(in, stmt) ==
  LET function == LoxFunction(FunctionStmtRef(in.run, stmt), in.environment_, FALSE)
      in1 == [in EXCEPT !.callables = Append(@, function)]
  IN Done(Define(in1, in1.environment_, stmt.name, CallableObject(Len(in1.callables))))

\* The loop of Interpreter::operator()(const WhileStmtPtr&); every
\* iteration uses one unit of fuel.
ExecuteWhile(in, stmt) ==
  LET condition == EvaluateExpression(in, stmt.condition)
      body == ExecuteStatement([condition.in EXCEPT !.fuel = @ - 1], stmt.body)
  IN IF condition.sig # "ok" THEN condition
     ELSE IF ~IsTruthy(condition.val) THEN Done(condition.in)
     ELSE IF condition.in.fuel = 0 THEN OutOfFuel(condition.in)
     ELSE IF body.sig # "ok" THEN body
     ELSE ExecuteWhile(body.in, stmt)

\* The statement visitors, Interpreter::operator()(const ...StmtPtr&).
VisitStmt(in, stmt) ==
  CASE stmt.k = "block" ->
         LET in1 == NewEnvironment(in, in.environment_)
         IN ExecuteBlockStatement(in1, stmt.statements, Len(in1.envs))
    [] stmt.k = "class" -> ExecuteClass(in, stmt)
    [] stmt.k = "expr" ->
         LET r == EvaluateExpression(in, stmt.expression)
         IN IF r.sig # "ok" THEN r ELSE Done(r.in)
    [] stmt.k = "function" -> ExecuteFunction(in, stmt)
    [] stmt.k = "if" ->
         LET result == EvaluateExpression(in, stmt.condition)
         IN IF result.sig # "ok" THEN result
            ELSE IF IsTruthy(result.val)
            THEN ExecuteStatement(result.in, stmt.then_branch)
            ELSE IF stmt.has_else THEN ExecuteStatement(result.in, stmt.else_branch)
            ELSE Done(result.in)
    [] stmt.k = "print" ->
         LET value == EvaluateExpression(in, stmt.expression)
         IN IF value.sig # "ok" THEN value ELSE PrintValue(value.in, value.val)
    [] stmt.k = "return" ->
         LET value == EvaluateExpression(in, stmt.value)
         IN IF ~stmt.has_value THEN Returning(in, FALSE, Nil)
            ELSE IF value.sig # "ok" THEN value
            ELSE Returning(value.in, TRUE, value.val)
    [] stmt.k = "var" ->
         LET value == IF stmt.has_initializer
                      THEN EvaluateExpression(in, stmt.initializer)
                      ELSE Ok(in, Nil)
         IN IF value.sig # "ok" THEN value
            ELSE Done(Define(value.in, value.in.environment_, stmt.name, value.val))
    [] stmt.k = "while" -> ExecuteWhile(in, stmt)
    [] stmt.k = "null" -> Ub(in)

Visit(in, of, node) ==
  IF of = "expr" THEN VisitExpr(in, node) ELSE VisitStmt(in, node)

---------------------------------------------------------------------------
(* Resolver (resolver.cpp).  Its state:                                     *)
(*   scopes_            the stack of scopes, name -> defined                 *)
(*   current_function_  NONE, FUNCTION, METHOD or INITIALIZER                *)
(*   current_class_     NONE or CLASS                                        *)
(*   locals_            what Interpreter::ResolveVariable has been told      *)
(*   reports            the messages handed to Lox::Error                    *)
(*   cout               what the resolver writes to std::cout                *)
(*   thrown             std::out_of_range has left the resolver              *)
(*   declarations       history: one record per block, function, method or   *)
(*                      class the resolver has finished                      *)

NewResolver ==
  [scopes_ |-> << >>, current_function_ |-> "NONE", current_class_ |-> "NONE",
   locals_ |-> [x \in {} |-> 0], reports |-> << >>, cout |-> << >>,
   thrown |-> FALSE, declarations |-> << >>]

\* History: the resolver, which was in state before when it came to the
\* block or declaration, has finished it in state after.
Finished(after, kind, before) ==
  [after EXCEPT !.declarations =
     Append(@, [kind |-> kind,
                function_before |-> before.current_function_,
                class_before |-> before.current_class_,
                scopes_before |-> Len(before.scopes_),
                function_after |-> after.current_function_,
                class_after |-> after.current_class_,
                scopes_after |-> Len(after.scopes_)])]

ResolverError(rs, message) == [rs EXCEPT !.reports = Append(@, message)]

BeginScope(rs) == [rs EXCEPT !.scopes_ = Append(@, [x \in {} |-> FALSE])]

EndScope(rs) == [rs EXCEPT !.scopes_ = SubSeq(@, 1, Len(@) - 1)]

Declare(rs, name) ==
  IF rs.scopes_ = << >> THEN rs
  ELSE LET reported ==
             IF name \in DOMAIN rs.scopes_[Len(rs.scopes_)]
             THEN ResolverError(rs, "Already a variable with this name in this scope.")
             ELSE rs
       IN [reported EXCEPT !.scopes_[Len(rs.scopes_)] = Put(@, name, FALSE)]

ResolverDefine(rs, name) ==
  IF rs.scopes_ = << >> THEN rs
  ELSE [rs EXCEPT !.scopes_[Len(rs.scopes_)] = Put(@, name, TRUE)]

\* The loop `for (size_t i = scopes_.size() - 1; i >= 0; i--)` ends only by
\* its return or, below index 0, by the std::out_of_range of scopes_.at.
ResolveLocalVariable(rs, id, name) ==
  LET holding == {i \in 1..Len(rs.scopes_) : name \in DOMAIN rs.scopes_[i]}
      innermost == CHOOSE i \in holding : \A j \in holding : j <= i
  IN IF rs.scopes_ = << >> THEN rs
     ELSE IF holding = {} THEN [rs EXCEPT !.thrown = TRUE]
     ELSE [rs EXCEPT !.locals_ = Put(@, id, Len(rs.scopes_) - innermost)]

RECURSIVE DeclareParams(_, _, _)
DeclareParams(rs, params, i) ==
  IF i > Len(params) THEN rs
  ELSE DeclareParams(ResolverDefine(Declare(rs, params[i]), params[i]), params, i + 1)

RECURSIVE ResolveExpression(_, _)
RECURSIVE ResolveExpressions(_, _, _)
RECURSIVE ResolveStatement(_, _)
RECURSIVE ResolveStatements(_, _, _)
RECURSIVE ResolveFunction(_, _, _)
RECURSIVE ResolveMethods(_, _, _)

ResolveExpressions(rs, exprs, i) ==
  IF i > Len(exprs) \/ rs.thrown THEN rs
  ELSE ResolveExpressions(ResolveExpression(rs, exprs[i]), exprs, i + 1)

ResolveExpression(rs, expr) ==
  IF rs.thrown THEN rs
  ELSE CASE expr.k = "literal" -> rs
    [] expr.k = "grouping" -> ResolveExpression(rs, expr.expression)
    [] expr.k = "unary" -> ResolveExpression(rs, expr.right)
    [] expr.k = "get" -> ResolveExpression(rs, expr.object)
    [] expr.k \in {"binary", "logical"} ->
         ResolveExpression(ResolveExpression(rs, expr.left), expr.right)
    [] expr.k = "set" ->
         ResolveExpression(ResolveExpression(rs, expr.value), expr.object)
    [] expr.k = "call" ->
         ResolveExpressions(ResolveExpression(rs, expr.callee), expr.arguments, 1)
    [] expr.k = "assign" ->
         LET value == ResolveExpression(rs, expr.value)
         IN IF value.thrown THEN value
            ELSE ResolveLocalVariable(value, expr.id, expr.name)
    [] expr.k = "this" ->
         ResolveLocalVariable(
           IF rs.current_class_ = "CLASS"
           THEN ResolverError(rs, "Can't use 'this' outside of a class.")
           ELSE rs,
           expr.id, "this")
    [] expr.k = "variable" ->
         LET shown == [rs EXCEPT !.cout = Append(@, expr.name)]
             own == /\ rs.scopes_ # << >>
                    /\ expr.name \in DOMAIN rs.scopes_[Len(rs.scopes_)]
                    /\ ~rs.scopes_[Len(rs.scopes_)][expr.name]
         IN ResolveLocalVariable(
              IF own
              THEN ResolverError(shown, "Can't read local variable in its own initializer.")
              ELSE shown,
              expr.id, expr.name)

ResolveStatements(rs, statements, i) ==
  IF i > Len(statements) \/ rs.thrown THEN rs
  ELSE ResolveStatements(ResolveStatement(rs, statements[i]), statements, i + 1)

\* A resolver that opens one scope for the parameters and another for the
\* body of a function.
ResolveFunctionBodyScope(rs, function, type) ==
  LET enclosing_function == rs.current_function_
      scoped == BeginScope([rs EXCEPT !.current_function_ = type])
      body == ResolveStatements(BeginScope(DeclareParams(scoped, function.params, 1)),
                                function.body, 1)
  IN IF body.thrown THEN body
     ELSE [EndScope(EndScope(body)) EXCEPT !.current_function_ = enclosing_function]

ResolveFunction(rs, function, type) ==
  LET enclosing_function == rs.current_function_
      scoped == BeginScope([rs EXCEPT !.current_function_ = type])
      body == ResolveStatements(DeclareParams(scoped, function.params, 1),
                                function.body, 1)
  IN IF body.thrown THEN body
     ELSE Finished([EndScope(body) EXCEPT !.current_function_ = enclosing_function],
                   type, rs)

ResolveMethods(rs, methods, i) ==
  IF i > Len(methods) \/ rs.thrown THEN rs
  ELSE ResolveMethods(
         ResolveFunction(rs, methods[i],
                         IF methods[i].name = "init" THEN "INITIALIZER" ELSE "METHOD"),
         methods, i + 1)

\* A resolver whose class visitor leaves current_class_ at NONE instead of
\* at the value it found.
ResolveClassToNone(rs, stmt) ==
  LET named == ResolverDefine(Declare([rs EXCEPT !.current_class_ = "CLASS"], stmt.name),
                              stmt.name)
      scoped == BeginScope(named)
      this == [scoped EXCEPT !.scopes_[Len(scoped.scopes_)] =
                 IF "this" \in DOMAIN @ THEN @ ELSE Put(@, "this", TRUE)]
      methods == ResolveMethods(this, stmt.methods, 1)
  IN IF methods.thrown THEN methods
     ELSE Finished([EndScope(methods) EXCEPT !.current_class_ = "NONE"],
                   "CLASS", rs)

\* Resolver::operator()(const ClassStmtPtr&).
ResolveClass(rs, stmt) ==
  LET enclosing_class == rs.current_class_
      named == ResolverDefine(Declare([rs EXCEPT !.current_class_ = "CLASS"], stmt.name),
                              stmt.name)
      scoped == BeginScope(named)
      this == [scoped EXCEPT !.scopes_[Len(scoped.scopes_)] =
                 IF "this" \in DOMAIN @ THEN @ ELSE Put(@, "this", TRUE)]
      methods == ResolveMethods(this, stmt.methods, 1)
  IN IF methods.thrown THEN methods
     ELSE Finished([EndScope(methods) EXCEPT !.current_class_ = enclosing_class],
                   "CLASS", rs)

\* The earlier Resolver::operator()(const ReturnStmtPtr&), which does not
\* look for an initializer.
ResolveReturnEarlier(rs, stmt) ==
  LET top == IF rs.current_function_ = "NONE"
             THEN ResolverError(rs, "Can't return from top-level code.")
             ELSE rs
  IN IF stmt.has_value THEN ResolveExpression(top, stmt.value) ELSE top

\* Resolver::operator()(const ReturnStmtPtr&).
ResolveReturn(rs, stmt) ==
  LET top == IF rs.current_function_ = "NONE"
             THEN ResolverError(rs, "Can't return from top-level code.")
             ELSE rs
      init == IF top.current_function_ = "INITIALIZER"
              THEN ResolverError(top, "Can't return a value from an initializer.")
              ELSE top
  IN IF stmt.has_value THEN ResolveExpression(init, stmt.value) ELSE top

ResolveStatement(rs, stmt) ==
  IF rs.thrown THEN rs
  ELSE CASE stmt.k = "block" ->
         LET inner == ResolveStatements(BeginScope(rs), stmt.statements, 1)
         IN IF inner.thrown THEN inner ELSE Finished(EndScope(inner), "BLOCK", rs)
    [] stmt.k = "class" -> ResolveClass(rs, stmt)
    [] stmt.k = "expr" -> ResolveExpression(rs, stmt.expression)
    [] stmt.k = "function" ->
         ResolveFunction(ResolverDefine(Declare(rs, stmt.name), stmt.name), stmt,
                         "FUNCTION")
    [] stmt.k = "if" ->
         LET then == ResolveStatement(ResolveExpression(rs, stmt.condition),
                                      stmt.then_branch)
         IN IF stmt.has_else /\ ~then.thrown
            THEN ResolveStatement(then, stmt.else_branch)
            ELSE then
    [] stmt.k = "print" -> ResolveExpression(rs, stmt.expression)
    [] stmt.k = "return" -> ResolveReturn(rs, stmt)
    [] stmt.k = "var" ->
         LET declared == Declare(rs, stmt.name)
             initialized == IF stmt.has_initializer
                            THEN ResolveExpression(declared, stmt.initializer)
                            ELSE declared
         IN IF initialized.thrown THEN initialized
            ELSE ResolverDefine(initialized, stmt.name)
    [] stmt.k = "while" ->
         ResolveStatement(ResolveExpression(rs, stmt.condition), stmt.body)
    [] stmt.k = "null" -> [rs EXCEPT !.thrown = TRUE]

---------------------------------------------------------------------------
(* The driver (lox.cpp).  A source text is given by what the scanner and    *)
(* the parser make of it:                                                   *)
(*   name           a name for the text                                      *)
(*   scan_reports   the reports of Scanner::ScanTokens, in order            *)
(*   parse_reports  the reports of Parser::Parse on the scanned tokens       *)
(*   statements     the statements Parser::Parse returns                     *)
(* Every source text is one line long.                                      *)

Source(name, statements) ==
  [name |-> name, scan_reports |-> << >>, parse_reports |-> << >>,
   statements |-> statements]

SourceWithLexError(name, scan_reports, statements) ==
  [name |-> name, scan_reports |-> scan_reports, parse_reports |-> << >>,
   statements |-> statements]

SourceWithSyntaxError(name, parse_reports, statements) ==
  [name |-> name, scan_reports |-> << >>, parse_reports |-> parse_reports,
   statements |-> statements]

EX_DATAERR == 65
EX_SOFTWARE == 70

(* The state of the process:                                                *)
(*   interpreter_       Lox::interpreter_ (its output_ is Lox::output_)      *)
(*   had_error, had_runtime_error   the static flags                         *)
(*   status   "start", "prompt" (the REPL awaits a line), "exited",          *)
(*            "terminated" (an exception left main), "undefined" (the        *)
(*            execution had undefined behaviour and went on), "cut" (the     *)
(*            run passed the model's bound MaxFuel)                          *)
(*   exit_code  the exit code, once exited                                   *)
(*   lines    the number of lines the REPL has read                          *)
(*   last     history of the latest Run: its source (an index of Sources),   *)
(*            whether the parser was started and whether Interpret was       *)
(*            called                                                         *)
NewLox ==
  [interpreter_ |-> NewInterpreter, had_error |-> FALSE,
   had_runtime_error |-> FALSE, status |-> "start", exit_code |-> 0, lines |-> 0,
   last |-> [source |-> 0, parsed |-> FALSE, invoked |-> FALSE]]

\* Lox::Report with the text it formats.
Report(l, text) ==
  [l EXCEPT !.interpreter_.output_ = Append(@, text), !.had_error = TRUE]

\* One Lox::Error after the other.
RECURSIVE ReportAll(_, _, _)
ReportAll(l, reports, i) ==
  IF i > Len(reports) THEN l ELSE ReportAll(Report(l, reports[i]), reports, i + 1)

ScanTokens(l, source) == ReportAll(l, source.scan_reports, 1)

Parse(l, source) ==
  ReportAll([l EXCEPT !.last.parsed = TRUE], source.parse_reports, 1)

ReportRuntimeError(l, what) ==
  [l EXCEPT !.interpreter_.output_ = @ \o << what, "[line 1]" >>,
            !.had_runtime_error = TRUE]

\* Interpreter::Interpret without its catch clause: the RuntimeError leaves
\* Interpret and main as a Return does.
InterpretEndUncaught(l, r) ==
  LET after == [l EXCEPT !.interpreter_ = r.in, !.last.invoked = TRUE]
  IN CASE r.sig = "ok" -> after
       [] r.sig \in {"error", "return"} -> [after EXCEPT !.status = "terminated"]
       [] r.sig = "ub" -> [after EXCEPT !.status = "undefined"]
       [] r.sig = "fuel" -> [after EXCEPT !.status = "cut"]

\* The end of Interpreter::Interpret, r being how the loop over the
\* statements ended: the catch clause reports a RuntimeError; a Return
\* that no LoxFunction::Call catches leaves Interpret and main.
InterpretEnd(l, r) ==
  LET after == [l EXCEPT !.interpreter_ = r.in, !.last.invoked = TRUE]
  IN CASE r.sig = "ok" -> after
       [] r.sig = "error" -> ReportRuntimeError(after, r.msg)
       [] r.sig = "return" -> [after EXCEPT !.status = "terminated"]
       [] r.sig = "ub" -> [after EXCEPT !.status = "undefined"]
       [] r.sig = "fuel" -> [after EXCEPT !.status = "cut"]

\* The classes that a std::shared_ptr<LoxClass> owns between two top-level
\* statements, when no temporary Object is alive: those that are the value
\* of a name in an environment or of a field of an instance.  Every
\* environment and every instance counts, also one that is itself gone.
Held(in) ==
  LET callables(values) ==
        {values[name].n : name \in {x \in DOMAIN values : values[x].tag = "callable"}}
  IN UNION ({callables(in.envs[env].values) : env \in 1..Len(in.envs)}
            \cup {callables(in.instances[instance].fields) :
                    instance \in 1..Len(in.instances)})

\* ~LoxClass: a class that no std::shared_ptr<LoxClass> owns any more has
\* been destroyed.
Sweep(in) ==
  [in EXCEPT !.freed = @ \cup {klass \in 1..Len(in.callables) :
                                 /\ in.callables[klass].kind = "class"
                                 /\ klass \notin Held(in)}]

\* The loop of Interpreter::Interpret, from statement i on.
RECURSIVE InterpretStatements(_, _, _)
InterpretStatements(in, statements, i) ==
  IF i > Len(statements) THEN Done(in)
  ELSE LET r == ExecuteStatement(Sweep(in), statements[i])
       IN IF r.sig # "ok" THEN r ELSE InterpretStatements(r.in, statements, i + 1)

\* Interpreter::Interpret.
Interpret(l, statements) ==
  InterpretEnd(l, InterpretStatements(l.interpreter_, statements, 1))

\* Lox::Run without its two tests of had_error.
RunUnchecked(l, source, id) ==
  LET started == [l EXCEPT !.interpreter_.run = @ + 1,
                           !.interpreter_.fuel = MaxFuel,
                           !.last = [source |-> id, parsed |-> FALSE,
                                     invoked |-> FALSE]]
  IN Interpret(Parse(ScanTokens(started, source), source), source.statements)

\* Lox::Run of the source numbered id.
Run(l, source, id) ==
  LET started == [l EXCEPT !.interpreter_.run = @ + 1,
                           !.interpreter_.fuel = MaxFuel,
                           !.last = [source |-> id, parsed |-> FALSE,
                                     invoked |-> FALSE]]
      scanned == ScanTokens(started, source)
      parsed == Parse(scanned, source)
  IN IF scanned.had_error THEN scanned
     ELSE IF parsed.had_error THEN parsed
     ELSE Interpret(parsed, source.statements)

---------------------------------------------------------------------------
(* The source texts the driver is run on *)

Str(s) == Literal(StringObject(s))
Num(i) == Literal(IntObject(i))
CallStmt(id, name) == ExprStmt(Call(Variable(id, name), << >>))

\* var a = "global"; { fun show() { print a; } show(); var a = "local"; show(); }
ProgramS1 ==
  Source("s1",
    << VarStmt("a", Str("global")),
       BlockStmt(<< FunctionStmt("show", << >>, << PrintStmt(Variable(1, "a")) >>),
                    CallStmt(2, "show"),
                    VarStmt("a", Str("local")),
                    CallStmt(3, "show") >>) >>)

\* fun makeCounter() { var i = 0; fun count() { i = i + 1; print i; }
\*   return count; }
\* var c = makeCounter(); c(); c();
ProgramCounter ==
  Source("counter",
    << FunctionStmt("makeCounter", << >>,
         << VarStmt("i", Num(0)),
            FunctionStmt("count", << >>,
              << ExprStmt(Assign(1, "i", Binary(Variable(2, "i"), "+", Num(1)))),
                 PrintStmt(Variable(3, "i")) >>),
            ReturnStmt(Variable(4, "count")) >>),
       VarStmt("c", Call(Variable(5, "makeCounter"), << >>)),
       CallStmt(6, "c"),
       CallStmt(7, "c") >>)

\* class A { m() { this.x = 1; } } var a = A(); a.m(); print a.x;
ProgramMethod ==
  Source("method",
    << ClassStmt("A", << FunctionStmt("m", << >>,
                           << ExprStmt(Set(This(1), "x", Num(1))) >>) >>),
       VarStmt("a", Call(Variable(2, "A"), << >>)),
       ExprStmt(Call(Get(Variable(3, "a"), "m"), << >>)),
       PrintStmt(Get(Variable(4, "a"), "x")) >>)

\* class P { init() { this.x = 1; } } var p = P(); print p.x;
ProgramInit ==
  Source("init",
    << ClassStmt("P", << FunctionStmt("init", << >>,
                           << ExprStmt(Set(This(1), "x", Num(1))) >>) >>),
       VarStmt("p", Call(Variable(2, "P"), << >>)),
       PrintStmt(Get(Variable(3, "p"), "x")) >>)

\* class Q { init() { print "made"; return; } m() { print "m"; } }
\* var q = Q(); print q; var m = q.m; m();
ProgramMade ==
  Source("made",
    << ClassStmt("Q", << FunctionStmt("init", << >>,
                           << PrintStmt(Str("made")), ReturnNothing >>),
                         FunctionStmt("m", << >>, << PrintStmt(Str("m")) >>) >>),
       VarStmt("q", Call(Variable(1, "Q"), << >>)),
       PrintStmt(Variable(2, "q")),
       VarStmt("m", Get(Variable(3, "q"), "m")),
       CallStmt(4, "m") >>)

\* { var x = 1; print nope; } print "after";
ProgramBlockError ==
  Source("blockerror",
    << BlockStmt(<< VarStmt("x", Num(1)), PrintStmt(Variable(1, "nope")) >>),
       PrintStmt(Str("after")) >>)

\* fun f() { { return 1; } } print f(); { var x = 2; print nope; }
ProgramBlockReturn ==
  Source("blockreturn",
    << FunctionStmt("f", << >>, << BlockStmt(<< ReturnStmt(Num(1)) >>) >>),
       PrintStmt(Call(Variable(1, "f"), << >>)),
       BlockStmt(<< VarStmt("x", Num(2)), PrintStmt(Variable(2, "nope")) >>) >>)

\* var g = 1; { var a = 1; var a = 2; } print g;
ProgramDuplicate ==
  Source("duplicate",
    << VarStmt("g", Num(1)),
       BlockStmt(<< VarStmt("a", Num(1)), VarStmt("a", Num(2)) >>),
       PrintStmt(Variable(1, "g")) >>)

\* print 1; @
ProgramLexError ==
  SourceWithLexError("lexerror", << "[line 1] Error: Unexpected character." >>,
    << PrintStmt(Num(1)) >>)

\* print 1; print ;
ProgramSyntaxError ==
  SourceWithSyntaxError("syntaxerror", << "[line 1] Error at ';': Expect expression." >>,
    << PrintStmt(Num(1)), NullStmt >>)

\* if (0) print "then"; else print "else";
ProgramIfZero ==
  Source("ifzero", << IfElseStmt(Num(0), PrintStmt(Str("then")), PrintStmt(Str("else"))) >>)

\* while ("") print "body"; print "done";
ProgramWhileEmpty ==
  Source("whileempty",
    << WhileStmt(Str(""), PrintStmt(Str("body"))), PrintStmt(Str("done")) >>)

\* print 0 or 1;
ProgramOrZero ==
  Source("orzero", << PrintStmt(Logical(Num(0), "or", Num(1))) >>)

\* { var a = "block"; fun show() { print a; } show(); }
ProgramLocalShow ==
  Source("localshow",
    << BlockStmt(<< VarStmt("a", Str("block")),
                    FunctionStmt("show", << >>, << PrintStmt(Variable(1, "a")) >>),
                    CallStmt(2, "show") >>) >>)

\* { var x = 1; } print x;
ProgramIsolation ==
  Source("isolation",
    << BlockStmt(<< VarStmt("x", Num(1)) >>), PrintStmt(Variable(1, "x")) >>)

\* { return; }
ProgramTopLevelReturn ==
  Source("toplevelreturn", << BlockStmt(<< ReturnNothing >>) >>)

\* var i = 0; while (i < 3) { i = i + 1; } print i;
ProgramLoop ==
  Source("loop",
    << VarStmt("i", Num(0)),
       WhileStmt(Binary(Variable(1, "i"), "<", Num(3)),
         BlockStmt(<< ExprStmt(Assign(2, "i", Binary(Variable(3, "i"), "+", Num(1)))) >>)),
       PrintStmt(Variable(4, "i")) >>)

\* class A {} var a = A(); a.x = 1; print a.x; print a.y;
ProgramFields ==
  Source("fields",
    << ClassStmt("A", << >>),
       VarStmt("a", Call(Variable(1, "A"), << >>)),
       ExprStmt(Set(Variable(2, "a"), "x", Num(1))),
       PrintStmt(Get(Variable(3, "a"), "x")),
       PrintStmt(Get(Variable(4, "a"), "y")) >>)

\* print 2147483647 + 1; print -(1 - 3) * 2; print !(1 == 1.0);
ProgramOverflow ==
  Source("overflow",
    << PrintStmt(Binary(Num(IntMax), "+", Num(1))),
       PrintStmt(Binary(Unary("-", Grouping(Binary(Num(1), "-", Num(3)))), "*", Num(2))),
       PrintStmt(Unary("!", Grouping(Binary(Num(1), "==",
                                            Literal(DoubleObject(ToDouble(1))))))) >>)

\* print clock; print clock();
ProgramClock ==
  Source("clock",
    << PrintStmt(Variable(1, "clock")),
       PrintStmt(Call(Variable(2, "clock"), << >>)) >>)

\* while (true) {}
ProgramForever ==
  Source("forever", << WhileStmt(Literal(BoolObject(TRUE)), BlockStmt(<< >>)) >>)

\* print 1 / 0;
ProgramDivideByZero ==
  Source("dividebyzero", << PrintStmt(Binary(Num(1), "/", Num(0))) >>)

\* fun g(x) { return 1; } if (nil) g(1); g();
ProgramArity ==
  Source("arity",
    << FunctionStmt("g", << "x" >>, << ReturnStmt(Num(1)) >>),
       IfStmt(Literal(Nil), ExprStmt(Call(Variable(1, "g"), << Num(1) >>))),
       ExprStmt(Call(Variable(2, "g"), << >>)) >>)

\* fun f() { while (true) { if (true) { { return "r"; } } print "f loop"; }
\*           print "f end"; }
\* fun g() { print f(); print "g goes on"; return; print "g end"; }
\* print g(); print "top";
ProgramReturn ==
  Source("return",
    << FunctionStmt("f", << >>,
         << WhileStmt(Literal(BoolObject(TRUE)),
              BlockStmt(<< IfStmt(Literal(BoolObject(TRUE)),
                             BlockStmt(<< BlockStmt(<< ReturnStmt(Str("r")) >>) >>)),
                           PrintStmt(Str("f loop")) >>)),
            PrintStmt(Str("f end")) >>),
       FunctionStmt("g", << >>,
         << PrintStmt(Call(Variable(1, "f"), << >>)),
            PrintStmt(Str("g goes on")),
            ReturnNothing,
            PrintStmt(Str("g end")) >>),
       PrintStmt(Call(Variable(2, "g"), << >>)),
       PrintStmt(Str("top")) >>)

\* "text"();
ProgramNotCallable ==
  Source("notcallable", << ExprStmt(Call(Str("text"), << >>)) >>)

\* fun a() { print "a"; return 1; }
FunctionA ==
  FunctionStmt("a", << >>, << PrintStmt(Str("a")), ReturnStmt(Num(1)) >>)

\* fun g(x, y) { print "g"; }
FunctionG == FunctionStmt("g", << "x", "y" >>, << PrintStmt(Str("g")) >>)

\* fun a() ... fun b() { print "b"; return 2; } fun g(x, y) ...
\* fun h() { print "h"; return g; } h()(a(), b());
ProgramCallOrder ==
  Source("callorder",
    << FunctionA,
       FunctionStmt("b", << >>, << PrintStmt(Str("b")), ReturnStmt(Num(2)) >>),
       FunctionG,
       FunctionStmt("h", << >>, << PrintStmt(Str("h")), ReturnStmt(Variable(1, "g")) >>),
       ExprStmt(Call(Call(Variable(2, "h"), << >>),
                     << Call(Variable(3, "a"), << >>),
                        Call(Variable(4, "b"), << >>) >>)) >>)

\* fun a() ... "text"(a());
ProgramCallText ==
  Source("calltext",
    << FunctionA,
       ExprStmt(Call(Str("text"), << Call(Variable(1, "a"), << >>) >>)) >>)

\* fun a() ... fun g(x, y) ... g(a());
ProgramCallArity ==
  Source("callarity",
    << FunctionA, FunctionG,
       ExprStmt(Call(Variable(1, "g"), << Call(Variable(2, "a"), << >>) >>)) >>)

\* class P { init(x) { print "init"; } } P();
ProgramCallClassArity ==
  Source("callclassarity",
    << ClassStmt("P", << FunctionStmt("init", << "x" >>,
                                      << PrintStmt(Str("init")) >>) >>),
       CallStmt(1, "P") >>)

\* var a = 1;
LineVar == Source("var a", << VarStmt("a", Num(1)) >>)

\* print a;
LinePrint == Source("print a", << PrintStmt(Variable(1, "a")) >>)

\* fun f() { print "f"; }
LineFun == Source("fun f", << FunctionStmt("f", << >>, << PrintStmt(Str("f")) >>) >>)

\* f();
LineCall == Source("call f", << CallStmt(1, "f") >>)

\* a = a + 1;
LineIncrement ==
  Source("increment",
    << ExprStmt(Assign(1, "a", Binary(Variable(2, "a"), "+", Num(1)))) >>)

\* class P { init() { return; } } class Q { init() { } }
\* var p = P(); var q = Q(); print p.init() == p; print q.init() == q;
\* fun f() { return; } fun g() { } print f(); print g();
ProgramInitAgain ==
  Source("initagain",
    << ClassStmt("P", << FunctionStmt("init", << >>, << ReturnNothing >>) >>),
       ClassStmt("Q", << FunctionStmt("init", << >>, << >>) >>),
       VarStmt("p", Call(Variable(1, "P"), << >>)),
       VarStmt("q", Call(Variable(2, "Q"), << >>)),
       PrintStmt(Binary(Call(Get(Variable(3, "p"), "init"), << >>), "==",
                        Variable(4, "p"))),
       PrintStmt(Binary(Call(Get(Variable(5, "q"), "init"), << >>), "==",
                        Variable(6, "q"))),
       FunctionStmt("f", << >>, << ReturnNothing >>),
       FunctionStmt("g", << >>, << >>),
       PrintStmt(Call(Variable(7, "f"), << >>)),
       PrintStmt(Call(Variable(8, "g"), << >>)) >>)

\* class A { m() { { print "m"; } } } var a = A(); a.m();
ProgramBlockInMethod ==
  Source("blockinmethod",
    << ClassStmt("A", << FunctionStmt("m", << >>,
                           << BlockStmt(<< PrintStmt(Str("m")) >>) >>) >>),
       VarStmt("a", Call(Variable(1, "A"), << >>)),
       ExprStmt(Call(Get(Variable(2, "a"), "m"), << >>)) >>)

\* class A { m() { } } var a = A(); A = nil; print a;
ProgramClassGone ==
  Source("classgone",
    << ClassStmt("A", << FunctionStmt("m", << >>, << >>) >>),
       VarStmt("a", Call(Variable(1, "A"), << >>)),
       ExprStmt(Assign(2, "A", Literal(Nil))),
       PrintStmt(Variable(3, "a")) >>)

\* class A { m() { } } var a = A(); var B = A; A = nil; print a; print a.m;
ProgramClassKept ==
  Source("classkept",
    << ClassStmt("A", << FunctionStmt("m", << >>, << >>) >>),
       VarStmt("a", Call(Variable(1, "A"), << >>)),
       VarStmt("B", Variable(2, "A")),
       ExprStmt(Assign(3, "A", Literal(Nil))),
       PrintStmt(Variable(4, "a")),
       PrintStmt(Get(Variable(5, "a"), "m")) >>)

\* The files the interpreter is run on, and then the lines the REPL reads.
Sources ==
  << ProgramS1, ProgramCounter, ProgramMethod, ProgramInit, ProgramMade,
     ProgramBlockError, ProgramBlockReturn, ProgramDuplicate, ProgramSyntaxError,
     ProgramIfZero, ProgramWhileEmpty, ProgramOrZero, ProgramLocalShow,
     ProgramIsolation, ProgramTopLevelReturn, ProgramLoop, ProgramFields,
     ProgramOverflow, ProgramClock, ProgramForever, ProgramDivideByZero,
     ProgramArity, ProgramNotCallable, ProgramReturn,
     ProgramCallOrder, ProgramCallText, ProgramCallArity, ProgramCallClassArity,
     ProgramInitAgain, ProgramBlockInMethod, ProgramClassGone, ProgramClassKept,
     ProgramLexError, LineVar, LinePrint, LineFun, LineCall, LineIncrement >>

Files == 1..Len(Sources)

Lines ==
  {i \in Files : Sources[i].name \in {"lexerror", "var a", "print a", "fun f",
                                      "call f", "increment"}}

\* The index in Sources of the source text of that name.
SourceNamed(name) == CHOOSE i \in Files : Sources[i].name = name

---------------------------------------------------------------------------
(* The process: main, Lox::RunFile and Lox::RunPrompt *)

MaxLines == 2

\* What the clock may read: 0 and 1.5 seconds.
Clocks == {DZero, DMake(0, 1, 1)}

\* What an execution with undefined behaviour may come to: the process is
\* killed, or it goes on in a state nothing is known about.
UndefinedOutcomes == {"terminated", "undefined"}

\* calc while the driver runs.
NoCalc ==
  [op |-> "none", left |-> Nil, right |-> Nil, truthy |-> FALSE,
   result |-> Value(Nil), output |-> << >>, sig |-> ""]

Init ==
  /\ calc = NoCalc
  /\ \E now \in Clocks : lox = [NewLox EXCEPT !.interpreter_.now = now]

\* The process after a Run that left it as `after`, where `status` is what
\* it goes on as if the Run returned and `outcome` what undefined behaviour
\* came to.
AfterRun(after, status, outcome) ==
  IF after.status = "undefined" THEN [after EXCEPT !.status = outcome]
  ELSE IF after.status \in {"terminated", "cut"} THEN after
  ELSE [after EXCEPT !.status = status]

\* The end of Lox::RunFile and of main.
Exit(l) ==
  IF l.status # "exited" THEN l
  ELSE IF l.had_error THEN [l EXCEPT !.exit_code = EX_DATAERR]
  ELSE IF l.had_runtime_error THEN [l EXCEPT !.exit_code = EX_SOFTWARE]
  ELSE [l EXCEPT !.exit_code = 0]

\* main with a script: Lox::RunFile of the file p.
RunFile(p) ==
  /\ lox.status = "start"
  /\ \E outcome \in UndefinedOutcomes :
       lox' = Exit(AfterRun(Run(lox, Sources[p], p), "exited", outcome))
  /\ UNCHANGED calc

\* One turn of the loop of Lox::RunPrompt: the line p is read and run.
RunPromptLine(p) ==
  /\ lox.status \in {"start", "prompt"}
  /\ lox.lines < MaxLines
  /\ \E outcome \in UndefinedOutcomes :
       \E after \in {AfterRun(Run(lox, Sources[p], p), "prompt", outcome)} :
         lox' = IF after.status = "prompt"
                THEN [after EXCEPT !.had_error = FALSE, !.lines = @ + 1]
                ELSE after
  /\ UNCHANGED calc

\* std::getline fails: the loop ends, RunPrompt returns and main returns 0.
RunPromptEnd ==
  /\ lox.status \in {"start", "prompt"}
  /\ lox' = [lox EXCEPT !.status = "exited", !.exit_code = 0]
  /\ UNCHANGED calc

Next ==
  \/ \E p \in Files : RunFile(p)
  \/ \E p \in Lines : RunPromptLine(p)
  \/ RunPromptEnd

Spec == Init /\ [][Next]_vars

---------------------------------------------------------------------------
(* The operations on values, one at a time.  calc holds the operands, the   *)
(* operation applied to them (op, "none" before) and what it gave: truthy   *)
(* (IsTruthy), result (a value operator's [kind, val, msg]), and sig and    *)
(* output (how a statement ended and what it printed).                      *)

\* 46341 is the least integer whose square does not fit int32_t; 2^31 and
\* 1/2 are doubles that are no int32_t.
Values ==
  {Nil, BoolObject(TRUE), BoolObject(FALSE),
   IntObject(0), IntObject(1), IntObject(-1), IntObject(2), IntObject(10),
   IntObject(46341), IntObject(IntMax), IntObject(IntMin),
   DoubleObject(DZero), DoubleObject(ToDouble(10)), DoubleObject(DMake(0, 0, 1)),
   DoubleObject(DMake(32768, 0, 0)),
   StringObject(""), StringObject("a"), StringObject("10"),
   CallableObject(1)}

InitValue ==
  /\ lox = NewLox
  /\ \E left \in Values, right \in Values :
       calc = [NoCalc EXCEPT !.left = left, !.right = right]

\* The operation op has been applied and gave the value operator's result r.
Gives(op, r) ==
  /\ calc.op = "none"
  /\ calc' = [calc EXCEPT !.op = op, !.result = r]
  /\ UNCHANGED lox

\* The statement or expression op has been run and ended as r.
Ends(op, r) ==
  /\ calc.op = "none"
  /\ calc' = [calc EXCEPT !.op = op, !.sig = r.sig, !.output = r.in.output_,
                          !.result = IF r.sig = "ok" THEN Value(r.val) ELSE Throw(r.msg)]
  /\ UNCHANGED lox

CalcIsTruthy ==
  /\ calc.op = "none"
  /\ calc' = [calc EXCEPT !.op = "truthy", !.truthy = IsTruthy(calc.left)]
  /\ UNCHANGED lox

CalcEqual == Gives("==", BinaryOperator("==", calc.left, calc.right))

CalcNotEqual == Gives("!=", BinaryOperator("!=", calc.left, calc.right))

CalcCompare(op) == Gives(op, BinaryOperator(op, calc.left, calc.right))

CalcAdd == Gives("+", BinaryOperator("+", calc.left, calc.right))

CalcSubtract == Gives("-", BinaryOperator("-", calc.left, calc.right))

\* The product of two numbers is computed where the model's doubles hold it.
CalcMultiply ==
  /\ AsDouble(calc.left).has /\ AsDouble(calc.right).has
       => DMulExact(AsDouble(calc.left).d, AsDouble(calc.right).d)
  /\ Gives("*", BinaryOperator("*", calc.left, calc.right))

\* The quotient of two numbers, one of them a double, is computed where the
\* model's doubles hold it.
CalcDivide ==
  /\ AsDouble(calc.left).has /\ AsDouble(calc.right).has
       /\ ~(IsInteger(calc.left) /\ IsInteger(calc.right))
       => DDivExact(AsDouble(calc.left).d, AsDouble(calc.right).d)
  /\ Gives("/", BinaryOperator("/", calc.left, calc.right))

CalcNegate == Gives("negate", UnaryOperator("-", calc.left))

CalcNot == Gives("not", UnaryOperator("!", calc.left))

\* if (left) print "then"; else print "else";
CalcIf ==
  Ends("if", ExecuteStatement(NewInterpreter,
               IfElseStmt(Literal(calc.left), PrintStmt(Str("then")),
                          PrintStmt(Str("else")))))

\* while (left) print "body";
CalcWhile ==
  Ends("while", ExecuteStatement(NewInterpreter,
                  WhileStmt(Literal(calc.left), PrintStmt(Str("body")))))

\* left or right, left and right
CalcLogical(op) ==
  Ends(op, EvaluateExpression(NewInterpreter,
             Logical(Literal(calc.left), op, Literal(calc.right))))

NextValue ==
  \/ CalcIsTruthy
  \/ CalcEqual
  \/ CalcNotEqual
  \/ \E op \in {">", ">=", "<", "<="} : CalcCompare(op)
  \/ CalcAdd
  \/ CalcSubtract
  \/ CalcMultiply
  \/ CalcDivide
  \/ CalcNegate
  \/ CalcNot
  \/ CalcIf
  \/ CalcWhile
  \/ \E op \in {"or", "and"} : CalcLogical(op)

SpecValue == InitValue /\ [][NextValue]_vars

---------------------------------------------------------------------------
(* Scanner (scanner.cpp), on texts of characters.  A text is a sequence of  *)
(* one-character strings; the texts scanned here are made of digits, '.',   *)
(* blanks, the one- and two-character operators and ';', on one line.  The  *)
(* scanner's state:                                                         *)
(*   source_   the text                                                     *)
(*   start_    the first character of the lexeme being scanned (from 1)     *)
(*   current_  the character to be read next (from 1)                       *)
(*   tokens_   the tokens so far, each [type, lexeme (its characters),      *)
(*             literal]                                                     *)
(*   reports   the errors handed to Lox::Error                              *)

NewScanner(source) ==
  [source_ |-> source, start_ |-> 1, current_ |-> 1, tokens_ |-> << >>,
   reports |-> << >>]

IsDigit(c) == c \in {"0", "1", "2", "3", "4", "5", "6", "7", "8", "9"}

\* Scanner::Peek; "" stands for '\0'.
ScannerPeek(sc) ==
  IF sc.current_ > Len(sc.source_) THEN "" ELSE sc.source_[sc.current_]

\* Scanner::PeekNext.
PeekNext(sc) ==
  IF sc.current_ + 1 > Len(sc.source_) THEN "" ELSE sc.source_[sc.current_ + 1]

\* The characters of a text as one string.
RECURSIVE Text(_)
Text(chars) == IF chars = << >> THEN "" ELSE Head(chars) \o Text(Tail(chars))

\* Scanner::AddToken: the lexeme is source_.substr(start_, current_ - start_).
AddToken(sc, type, literal) ==
  [sc EXCEPT !.tokens_ =
     Append(@, [type |-> type,
                lexeme |-> SubSeq(sc.source_, sc.start_, sc.current_ - 1),
                literal |-> literal])]

\* `while (IsDigit(Peek())) Advance();`
RECURSIVE ScanDigits(_)
ScanDigits(sc) ==
  IF IsDigit(ScannerPeek(sc)) THEN ScanDigits([sc EXCEPT !.current_ = @ + 1])
  ELSE sc

\* The whole number that the digits write, as a double.
RECURSIVE DigitsValue(_)
DigitsValue(digits) ==
  IF digits = << >> THEN DZero
  ELSE LET front == DigitsValue(SubSeq(digits, 1, Len(digits) - 1))
       IN DMake(10 * front.hi,
                10 * front.lo
                  + (CHOOSE d \in 0..9 : Digit(d) = digits[Len(digits)]),
                0)

\* The literal of the NUMBER token num_str: std::stoi, and std::stod for a
\* text with a '.' and for one that std::stoi finds out of range.  The
\* fractions of the texts scanned here are .0 and .5.
NumberLiteral(num_str) ==
  LET negative == num_str[1] = "-"
      unsigned == IF negative THEN Tail(num_str) ELSE num_str
      dot == IF "." \in {unsigned[i] : i \in 1..Len(unsigned)}
             THEN CHOOSE i \in 1..Len(unsigned) : unsigned[i] = "."
             ELSE Len(unsigned) + 1
      whole == DigitsValue(SubSeq(unsigned, 1, dot - 1))
      fraction == SubSeq(unsigned, dot + 1, Len(unsigned))
      magnitude == CASE fraction \in {<< >>, << "0" >>} -> whole
                     [] fraction = << "5" >> -> DAdd(whole, DMake(0, 0, 1))
      value == IF negative THEN DNeg(magnitude) ELSE magnitude
  IN IF dot <= Len(unsigned) THEN DoubleObject(value)
     ELSE IF DIsInt32(value) THEN IntObject(DToInt(value))
     ELSE DoubleObject(value)

\* Scanner::ScanNumber.
ScanNumber(sc) ==
  LET whole == ScanDigits(sc)
      all == IF ScannerPeek(whole) = "." /\ IsDigit(PeekNext(whole))
             THEN ScanDigits([whole EXCEPT !.current_ = @ + 1])
             ELSE whole
  IN AddToken(all, "NUMBER",
              NumberLiteral(SubSeq(all.source_, all.start_, all.current_ - 1)))

\* The token types of the characters that are tokens by themselves.
SingleCharacter ==
  [c \in {"(", ")", "{", "}", ",", ".", "+", ";", "*"} |->
     CASE c = "(" -> "LEFT_PAREN" [] c = ")" -> "RIGHT_PAREN"
       [] c = "{" -> "LEFT_BRACE" [] c = "}" -> "RIGHT_BRACE"
       [] c = "," -> "COMMA" [] c = "." -> "DOT" [] c = "+" -> "PLUS"
       [] c = ";" -> "SEMICOLON" [] c = "*" -> "STAR"]

\* The token types of the characters that '=' may follow.
BeforeEqual ==
  [c \in {"!", "=", "<", ">"} |->
     CASE c = "!" -> "BANG" [] c = "=" -> "EQUAL" [] c = "<" -> "LESS"
       [] c = ">" -> "GREATER"]

\* A scanner for which every '-' is a MINUS token by itself.
ScanTokenSplitMinus(sc) ==
  LET c == sc.source_[sc.current_]
      sc1 == [sc EXCEPT !.current_ = @ + 1]
  IN CASE c \in DOMAIN SingleCharacter -> AddToken(sc1, SingleCharacter[c], Nil)
       [] c = "-" -> AddToken(sc1, "MINUS", Nil)
       [] c \in DOMAIN BeforeEqual ->
            IF ScannerPeek(sc1) = "="
            THEN AddToken([sc1 EXCEPT !.current_ = @ + 1],
                          BeforeEqual[c] \o "_EQUAL", Nil)
            ELSE AddToken(sc1, BeforeEqual[c], Nil)
       [] c = " " -> sc1
       [] IsDigit(c) -> ScanNumber(sc1)
       [] c \in {"@", "#", "^"} ->
            [sc1 EXCEPT !.reports =
               Append(@, "[line 1] Error: Unexpected character.")]

\* Scanner::ScanToken, for the characters of the texts scanned here
\* (letters, quotes, slashes and newlines are not among them; '@', '#' and
\* '^' are the characters that begin no lexeme).
ScanToken(sc) ==
  LET c == sc.source_[sc.current_]
      sc1 == [sc EXCEPT !.current_ = @ + 1]
  IN CASE c \in DOMAIN SingleCharacter -> AddToken(sc1, SingleCharacter[c], Nil)
       [] c = "-" -> IF IsDigit(ScannerPeek(sc1)) THEN ScanNumber(sc1)
                     ELSE AddToken(sc1, "MINUS", Nil)
       [] c \in DOMAIN BeforeEqual ->
            IF ScannerPeek(sc1) = "="
            THEN AddToken([sc1 EXCEPT !.current_ = @ + 1],
                          BeforeEqual[c] \o "_EQUAL", Nil)
            ELSE AddToken(sc1, BeforeEqual[c], Nil)
       [] c = " " -> sc1
       [] IsDigit(c) -> ScanNumber(sc1)
       [] c \in {"@", "#", "^"} ->
            [sc1 EXCEPT !.reports =
               Append(@, "[line 1] Error: Unexpected character.")]

\* The loop of Scanner::ScanTokens and the EoF token after it.
RECURSIVE ScanTokensFrom(_)
ScanTokensFrom(sc) ==
  IF sc.current_ > Len(sc.source_)
  THEN [sc EXCEPT !.tokens_ =
          Append(@, [type |-> "EoF", lexeme |-> << >>, literal |-> Nil])]
  ELSE ScanTokensFrom(ScanToken([sc EXCEPT !.start_ = sc.current_]))

\* Scanner{source}.ScanTokens().
Scan(source) == ScanTokensFrom(NewScanner(source))

---------------------------------------------------------------------------
(* Parser (parser.cpp), on the tokens of those texts: numbers, operators    *)
(* and ';'.  No keyword, identifier, string or parenthesis is among them,   *)
(* so every statement is an expression statement and the rules from         *)
(* assignment down to comparison give what ParseTerm gives.  The parser's    *)
(* state is [tokens_, current_ (from 1), reports]; a rule ends as            *)
(* [p, sig, expr], sig "error" where it threw ParseError.                    *)

NewParser(tokens) == [tokens_ |-> tokens, current_ |-> 1, reports |-> << >>]

\* Parser::Peek.
ParserPeek(p) == p.tokens_[p.current_]

\* Parser::Check, for any of the types.
Check(p, types) == ParserPeek(p).type # "EoF" /\ ParserPeek(p).type \in types

\* Parser::Advance.
ParserAdvance(p) ==
  IF ParserPeek(p).type # "EoF" THEN [p EXCEPT !.current_ = @ + 1] ELSE p

Parsed(p, expr) == [p |-> p, sig |-> "ok", expr |-> expr]

\* `throw Error(Peek(), message)`: Parser::Error and Lox::Error of a token.
ParseError(p, message) ==
  LET where == IF ParserPeek(p).type = "EoF" THEN " at end"
               ELSE " at '" \o Text(ParserPeek(p).lexeme) \o "'"
  IN [p |-> [p EXCEPT !.reports =
                Append(@, "[line 1] Error" \o where \o ": " \o message)],
      sig |-> "error", expr |-> Literal(Nil)]

\* Parser::ParsePrimary.
ParsePrimary(p) ==
  IF Check(p, {"NUMBER", "STRING"})
  THEN Parsed(ParserAdvance(p), Literal(ParserPeek(p).literal))
  ELSE ParseError(p, "Expect expression.")

\* The loop of Parser::ParseCall after the primary r: no IDENTIFIER follows
\* a '.' in these texts.
ParseCallRest(r) ==
  IF r.sig = "ok" /\ Check(r.p, {"DOT"})
  THEN ParseError(ParserAdvance(r.p), "Expect property name after '.'.")
  ELSE r

ParseCall(p) == ParseCallRest(ParsePrimary(p))

\* The unary expression of the operator token op and the operand right.
UnaryOf(op, right) ==
  IF right.sig # "ok" THEN right
  ELSE Parsed(right.p, Unary(Text(op.lexeme), right.expr))

RECURSIVE ParseUnary(_)
ParseUnary(p) ==
  IF Check(p, {"BANG", "MINUS"})
  THEN UnaryOf(ParserPeek(p), ParseUnary(ParserAdvance(p)))
  ELSE ParseCall(p)

\* The binary expression of left, the operator token op and right.
BinaryOf(left, op, right) ==
  IF right.sig # "ok" THEN right
  ELSE Parsed(right.p, Binary(left.expr, Text(op.lexeme), right.expr))

\* The loop of Parser::ParseFactor after the operand left.
RECURSIVE ParseFactorRest(_)
ParseFactorRest(left) ==
  IF left.sig = "ok" /\ Check(left.p, {"SLASH", "STAR"})
  THEN ParseFactorRest(BinaryOf(left, ParserPeek(left.p),
                                ParseUnary(ParserAdvance(left.p))))
  ELSE left

ParseFactor(p) == ParseFactorRest(ParseUnary(p))

\* The loop of Parser::ParseTerm after the operand left.
RECURSIVE ParseTermRest(_)
ParseTermRest(left) ==
  IF left.sig = "ok" /\ Check(left.p, {"MINUS", "PLUS"})
  THEN ParseTermRest(BinaryOf(left, ParserPeek(left.p),
                              ParseFactor(ParserAdvance(left.p))))
  ELSE left

ParseTerm(p) == ParseTermRest(ParseFactor(p))

\* Parser::ParseExpression.
ParseExpression(p) == ParseTerm(p)

\* Parser::ParseExpressionStatement after the expression r: [p, sig, stmt].
ExpressionStatementOf(r) ==
  LET error == ParseError(r.p, "Expect ';' after expression.")
  IN IF r.sig # "ok" THEN [p |-> r.p, sig |-> "error", stmt |-> NullStmt]
     ELSE IF Check(r.p, {"SEMICOLON"})
     THEN [p |-> ParserAdvance(r.p), sig |-> "ok", stmt |-> ExprStmt(r.expr)]
     ELSE [p |-> error.p, sig |-> "error", stmt |-> NullStmt]

ParseExpressionStatement(p) == ExpressionStatementOf(ParseExpression(p))

\* The loop of Parser::Synchronize after its first Advance.
RECURSIVE SynchronizeFrom(_)
SynchronizeFrom(p) ==
  IF ParserPeek(p).type = "EoF" \/ p.tokens_[p.current_ - 1].type = "SEMICOLON"
  THEN p
  ELSE SynchronizeFrom(ParserAdvance(p))

\* Parser::Synchronize.
Synchronize(p) == SynchronizeFrom(ParserAdvance(p))

\* The end of Parser::ParseDeclaration: the statement r, or after a
\* ParseError the null statement, with the parser synchronized.
DeclarationOf(r) ==
  IF r.sig = "ok" THEN r ELSE [r EXCEPT !.p = Synchronize(r.p)]

\* Parser::ParseDeclaration.
ParseDeclaration(p) == DeclarationOf(ParseExpressionStatement(p))

\* The loop of Parser::Parse: [reports, statements].
RECURSIVE ParseFrom(_, _)
ParseNext(d, statements) == ParseFrom(d.p, Append(statements, d.stmt))

ParseFrom(p, statements) ==
  IF ParserPeek(p).type = "EoF"
  THEN [reports |-> p.reports, statements |-> statements]
  ELSE ParseNext(ParseDeclaration(p), statements)

\* Parser{tokens}.Parse().
ParseTokens(tokens) == ParseFrom(NewParser(tokens), << >>)

\* What the scanner and the parser make of the text for Lox::Run: the
\* parser is not started after a report of the scanner.
SourceOfText(name, text) ==
  IF Scan(text).reports # << >>
  THEN SourceWithLexError(name, Scan(text).reports, << >>)
  ELSE SourceWithSyntaxError(name, ParseTokens(Scan(text).tokens_).reports,
                             ParseTokens(Scan(text).tokens_).statements)

---------------------------------------------------------------------------
(* The scanner, the parser and the evaluation of the first statement, one   *)
(* text at a time.  calc holds the text, the operation applied to it (op,   *)
(* "none" before) and what it gave: tokens and reports (Scan), statements   *)
(* and reports (Scan and Parse as Lox::Run calls them), result (the value   *)
(* of the expression of the first statement).                               *)

MaxNumbers == 2

Numerals ==
  { << "1" >>, << "2", "1", "4", "7", "4", "8", "3", "6", "4", "8" >>,
    << "1", ".", "5" >> }

Signs == { << >>, << "-" >> }

Separators == { << "-" >>, << " ", "-", " " >>, << " " >>, << "+" >> }

\* The texts of n numerals, each with or without a sign, with a separator
\* between each two.
RECURSIVE Expressions(_)
Expressions(n) ==
  IF n = 1 THEN {sign \o numeral : sign \in Signs, numeral \in Numerals}
  ELSE {e \o separator \o last :
          e \in Expressions(n - 1), separator \in Separators, last \in Expressions(1)}

\* Those texts, with and without the ';' that ends a statement.
Texts ==
  UNION {{e, e \o << ";" >>} : e \in UNION {Expressions(n) : n \in 1..MaxNumbers}}

NoScan ==
  [op |-> "none", text |-> << >>, tokens |-> << >>, reports |-> << >>,
   statements |-> << >>, result |-> Value(Nil)]

InitScan ==
  /\ lox = NewLox
  /\ \E text \in Texts : calc = [NoScan EXCEPT !.text = text]

\* Scanner{text}.ScanTokens().
ScanText ==
  /\ calc.op = "none"
  /\ \E sc \in {Scan(calc.text)} :
       calc' = [calc EXCEPT !.op = "scan", !.tokens = sc.tokens_,
                            !.reports = sc.reports]
  /\ UNCHANGED lox

\* The scanner and then the parser, as Lox::Run calls them.
ParseText ==
  /\ calc.op = "none"
  /\ \E source \in {SourceOfText("text", calc.text)} :
       calc' = [calc EXCEPT !.op = "parse",
                            !.statements = source.statements,
                            !.reports = source.scan_reports \o source.parse_reports]
  /\ UNCHANGED lox

\* Interpreter::EvaluateExpression of the expression of the first statement
\* of a text without errors.
EvaluateText ==
  /\ calc.op = "none"
  /\ \E source \in {SourceOfText("text", calc.text)} :
       /\ source.scan_reports = << >> /\ source.parse_reports = << >>
       /\ source.statements # << >>
       /\ \E r \in {EvaluateExpression(NewInterpreter,
                                       source.statements[1].expression)} :
            calc' = [calc EXCEPT !.op = "evaluate",
                                 !.statements = source.statements,
                                 !.result = IF r.sig = "ok" THEN Value(r.val)
                                            ELSE Throw(r.msg)]
  /\ UNCHANGED lox

NextScan ==
  \/ ScanText
  \/ ParseText
  \/ EvaluateText

SpecScan == InitScan /\ [][NextScan]_vars

---------------------------------------------------------------------------
(* Environment, one call at a time, on a chain of environments: the first   *)
(* has no enclosing environment and each other one encloses the one before. *)
(* calc holds the chain before the call (in), the call (op, "none" before   *)
(* it, with env, name, distance and value), what it returned or threw (got) *)
(* and the chain after it (after).                                          *)

MaxScopes == 3

ScopeNames == {"a", "b"}

\* The maps of an environment at the level: some of the names, bound to the
\* level.
ScopeValues(level) ==
  {[x \in names |-> IntObject(level)] : names \in SUBSET ScopeNames}

RECURSIVE Chains(_)
Chains(n) ==
  IF n = 1
  THEN {<< [values |-> values, enclosing |-> 0] >> : values \in ScopeValues(1)}
  ELSE {Append(chain, [values |-> values, enclosing |-> n - 1]) :
          chain \in Chains(n - 1), values \in ScopeValues(n)}

Assigned == IntObject(9)

NoCall ==
  [op |-> "none", in |-> NewInterpreter, env |-> 0, name |-> "", distance |-> 0,
   value |-> Nil, got |-> Value(Nil), after |-> NewInterpreter]

InitEnvironment ==
  /\ lox = NewLox
  /\ \E n \in 1..MaxScopes : \E chain \in Chains(n) :
       calc = [NoCall EXCEPT !.in = [NewInterpreter EXCEPT !.envs = chain],
                             !.after = [NewInterpreter EXCEPT !.envs = chain]]

\* What a call that returns nothing gave.
Outcome(r) ==
  CASE r.sig = "ok" -> Value(Nil)
    [] r.sig = "error" -> Throw(r.msg)
    [] r.sig = "ub" -> Undefined

\* env->Get(name)
CallGet ==
  /\ calc.op = "none"
  /\ \E env \in 1..Len(calc.in.envs), name \in ScopeNames :
       calc' = [calc EXCEPT !.op = "get", !.env = env, !.name = name,
                            !.got = EnvironmentGet(calc.in, env, name)]
  /\ UNCHANGED lox

\* env->Define(name, value)
CallDefine ==
  /\ calc.op = "none"
  /\ \E env \in 1..Len(calc.in.envs), name \in ScopeNames :
       calc' = [calc EXCEPT !.op = "define", !.env = env, !.name = name,
                            !.value = Assigned,
                            !.after = Define(calc.in, env, name, Assigned)]
  /\ UNCHANGED lox

\* env->Assign(name, value)
CallAssign ==
  /\ calc.op = "none"
  /\ \E env \in 1..Len(calc.in.envs), name \in ScopeNames :
       \E r \in {EnvironmentAssign(calc.in, env, name, Assigned)} :
         calc' = [calc EXCEPT !.op = "assign", !.env = env, !.name = name,
                              !.value = Assigned, !.got = Outcome(r),
                              !.after = r.in]
  /\ UNCHANGED lox

\* env->GetAt(distance, name)
CallGetAt ==
  /\ calc.op = "none"
  /\ \E env \in 1..Len(calc.in.envs), name \in ScopeNames,
        distance \in 0..(MaxScopes - 1) :
       calc' = [calc EXCEPT !.op = "get_at", !.env = env, !.name = name,
                            !.distance = distance,
                            !.got = GetAt(calc.in, env, distance, name)]
  /\ UNCHANGED lox

\* env->AssignAt(distance, name, value)
CallAssignAt ==
  /\ calc.op = "none"
  /\ \E env \in 1..Len(calc.in.envs), name \in ScopeNames,
        distance \in 0..(MaxScopes - 1) :
       \E r \in {AssignAt(calc.in, env, distance, name, Assigned)} :
         calc' = [calc EXCEPT !.op = "assign_at", !.env = env, !.name = name,
                              !.distance = distance, !.value = Assigned,
                              !.got = Outcome(r), !.after = r.in]
  /\ UNCHANGED lox

NextEnvironment ==
  \/ CallGet
  \/ CallDefine
  \/ CallAssign
  \/ CallGetAt
  \/ CallAssignAt

SpecEnvironment == InitEnvironment /\ [][NextEnvironment]_vars

---------------------------------------------------------------------------
(* The resolver and then the interpreter on one list of statements, as the *)
(* two are coupled by Interpreter::ResolveVariable: ResolveStatements      *)
(* fills the interpreter's locals_, and Interpret, called unless the       *)
(* resolver threw or reported an error through Lox::Error, uses them.      *)
(* calc holds the statements, the step taken last (op, "none" before the   *)
(* first) and the resolver after its pass (rs); lox holds the interpreter  *)
(* and the flags.                                                          *)

MaxNest == 2

\* The use of the variable a, with the node ids from first on: `print a;`
\* or `a = "<text>"; print a;`.
UseOf(use, first, text) ==
  IF use = "read" THEN << PrintStmt(Variable(first, "a")) >>
  ELSE << ExprStmt(Assign(first, "a", Str(text))),
          PrintStmt(Variable(first + 1, "a")) >>

\* The statements in a block of their own, or as they are.
Blocked(inner, statements) ==
  IF inner THEN << BlockStmt(statements) >> ELSE statements

\* The statements within n blocks.
RECURSIVE Nest(_, _)
Nest(n, statements) ==
  IF n = 0 THEN statements ELSE << BlockStmt(Nest(n - 1, statements)) >>

\* { var a = "outer"; {...{ USE [var a = "inner"; USE] }...} print a; }
\* with n blocks between the declaration and the use; USE is the use of a,
\* written out (via "direct") or in `fun show() { USE } show();` and then
\* `show();` (via "function"), in a block of its own if inner.
ScopeProgram(n, via, use, shadow, inner) ==
  LET first == IF via = "function"
               THEN << FunctionStmt("show", << >>,
                                    Blocked(inner, UseOf(use, 1, "one"))),
                       CallStmt(3, "show") >>
               ELSE Blocked(inner, UseOf(use, 1, "one"))
      second == IF via = "function" THEN << CallStmt(4, "show") >>
                ELSE Blocked(inner, UseOf(use, 5, "two"))
      core == IF shadow THEN first \o << VarStmt("a", Str("inner")) >> \o second
              ELSE first
  IN << BlockStmt(<< VarStmt("a", Str("outer")) >> \o Nest(n, core)
                    \o << PrintStmt(Variable(9, "a")) >>) >>

\* What the program prints under lexical scoping.
ScopeProgramPrints(n, via, use, shadow, inner) ==
  LET first == IF use = "read" THEN "outer" ELSE "one"
      second == CASE via = "function" -> first
                  [] via = "direct" /\ use = "assign" -> "two"
                  [] via = "direct" /\ use = "read" -> "inner"
  IN << first >> \o (IF shadow THEN << second >> ELSE << >>) \o << first >>

ScopePrograms ==
  {[statements |-> ScopeProgram(n, via, use, shadow, inner),
    prints |-> ScopeProgramPrints(n, via, use, shadow, inner)] :
     n \in 0..MaxNest, via \in {"direct", "function"}, use \in {"read", "assign"},
     shadow \in BOOLEAN, inner \in BOOLEAN}

\* fun f() { print g; } var g = 1; f();
ProgramGlobalLater ==
  << FunctionStmt("f", << >>, << PrintStmt(Variable(1, "g")) >>),
     VarStmt("g", Num(1)),
     CallStmt(2, "f") >>

\* var g = 1; { print g; }
ProgramGlobalInBlock ==
  << VarStmt("g", Num(1)), BlockStmt(<< PrintStmt(Variable(1, "g")) >>) >>

\* var g = 1; print g;
ProgramGlobalOnly ==
  << VarStmt("g", Num(1)), PrintStmt(Variable(1, "g")) >>

\* { var a = 1; { var a = a; print a; } }
ProgramOwnInitializer ==
  << BlockStmt(<< VarStmt("a", Num(1)),
                  BlockStmt(<< VarStmt("a", Variable(1, "a")),
                               PrintStmt(Variable(2, "a")) >>) >>) >>

\* { class A { m() { print this; } } A().m(); }
ProgramThis ==
  << BlockStmt(<< ClassStmt("A", << FunctionStmt("m", << >>,
                                       << PrintStmt(This(1)) >>) >>),
                  ExprStmt(Call(Get(Call(Variable(2, "A"), << >>), "m"), << >>)) >>) >>

\* print this;
ProgramThisOutside == << PrintStmt(This(1)) >>

OtherPrograms ==
  {[statements |-> ProgramGlobalLater, prints |-> << "1" >>],
   [statements |-> ProgramGlobalInBlock, prints |-> << "1" >>],
   [statements |-> ProgramGlobalOnly, prints |-> << "1" >>],
   [statements |-> ProgramOwnInitializer, prints |-> << >>],
   [statements |-> ProgramThis, prints |-> << "A instance" >>],
   [statements |-> ProgramThisOutside,
    prints |-> << UndefinedVariable("this"), "[line 1]" >>]}

ReturnContexts ==
  {"top", "function", "method", "initializer", "function_in_initializer",
   "class_in_method"}

\* `return;` or `return 1;` within n blocks in
\*   top                      the top level
\*   function                 fun f() { ... }
\*   method                   class A { m() { ... } }
\*   initializer              class A { init() { ... } }
\*   function_in_initializer  class A { init() { fun g() { ... } } }
\*   class_in_method          class A { m() { class B { init() { ... } } } }
ReturnProgram(context, value, n) ==
  LET body == Nest(n, << IF value THEN ReturnStmt(Num(1)) ELSE ReturnNothing >>)
      Class(name, method, statements) ==
        ClassStmt(name, << FunctionStmt(method, << >>, statements) >>)
  IN CASE context = "top" -> body
       [] context = "function" -> << FunctionStmt("f", << >>, body) >>
       [] context = "method" -> << Class("A", "m", body) >>
       [] context = "initializer" -> << Class("A", "init", body) >>
       [] context = "function_in_initializer" ->
            << Class("A", "init", << FunctionStmt("g", << >>, body) >>) >>
       [] context = "class_in_method" ->
            << Class("A", "m", << Class("B", "init", body) >>) >>

ReturnPrograms ==
  {[statements |-> ReturnProgram(context, value, n), prints |-> << >>] :
     context \in ReturnContexts, value \in BOOLEAN, n \in 0..MaxNest}

NoResolution ==
  [op |-> "none", statements |-> << >>, prints |-> << >>, rs |-> NewResolver]

InitResolved ==
  /\ lox = NewLox
  /\ \E program \in ScopePrograms \cup OtherPrograms \cup ReturnPrograms :
       calc = [NoResolution EXCEPT !.statements = program.statements,
                                   !.prints = program.prints]

\* Resolver{interpreter_}.ResolveStatements(statements): what it hands to
\* Interpreter::ResolveVariable is in the interpreter's locals_, what it
\* hands to Lox::Error is reported.
ResolveProgram ==
  /\ calc.op = "none"
  /\ \E rs \in {ResolveStatements(NewResolver, calc.statements, 1)} :
       /\ calc' = [calc EXCEPT !.op = "resolve", !.rs = rs]
       /\ lox' = ReportAll([lox EXCEPT !.interpreter_.locals_ = rs.locals_],
                           rs.reports, 1)

\* interpreter_.Interpret(statements), after a pass of the resolver that
\* ended without an exception and without an error.
InterpretProgram ==
  /\ calc.op = "resolve"
  /\ ~calc.rs.thrown
  /\ ~lox.had_error
  /\ \E after \in {Interpret(lox, calc.statements)} :
       /\ calc' = [calc EXCEPT !.op = "interpret"]
       /\ lox' = after

NextResolved ==
  \/ ResolveProgram
  \/ InterpretProgram

SpecResolved == InitResolved /\ [][NextResolved]_vars

---------------------------------------------------------------------------
(* LoxClass on a chain of classes: the first has no superclass and each     *)
(* other one has the one before as its superclass.  The class at level n    *)
(* is named ClassName(n); each of its methods has n parameters and prints   *)
(* the class's name.  calc holds the interpreter with the classes (in), the *)
(* class called on (klass), the call (op, "none" before it, with name),     *)
(* what it returned (found, arity) and the interpreter after it (after).    *)

MaxSupers == 2

ClassName(level) == "K" \o NatToString(level)

MethodNames == << "init", "m" >>

MethodParams(level) == [i \in 1..level |-> "p" \o NatToString(i)]

\* The declarations of the methods named, of the class at the level.
MethodsOf(level, names) ==
  LET chosen == SelectSeq(MethodNames, LAMBDA name : name \in names)
  IN [i \in 1..Len(chosen) |->
        FunctionStmt(chosen[i], MethodParams(level),
                     << PrintStmt(Str(ClassName(level))) >>)]

\* std::make_shared<LoxClass>(name, superclass, methods), the methods made
\* as the class visitor makes them: [in, klass].
DeclareClass(in, level, names, superclass) ==
  LET m == ClassMethods(in, MethodsOf(level, names), 1, NoMap)
      in1 == [m.in EXCEPT !.callables =
                Append(@, LoxClass(ClassName(level), superclass, m.methods))]
  IN [in |-> in1, klass |-> Len(in1.callables)]

RECURSIVE ClassChains(_)
ClassChains(n) ==
  IF n = 1
  THEN {DeclareClass(NewInterpreter, 1, names, 0) :
          names \in SUBSET {"init", "m"}}
  ELSE {DeclareClass(c.in, n, names, c.klass) :
          c \in ClassChains(n - 1), names \in SUBSET {"init", "m"}}

InitClass ==
  /\ lox = NewLox
  /\ \E n \in 1..(MaxSupers + 1) : \E c \in ClassChains(n) :
       calc = [op |-> "none", in |-> c.in, klass |-> c.klass, name |-> "",
               found |-> 0, arity |-> 0, sig |-> "ok", after |-> c.in]

\* klass->FindMethod(name)
CallFindMethod ==
  /\ calc.op = "none"
  /\ \E name \in {"init", "m"} :
       calc' = [calc EXCEPT !.op = "find_method", !.name = name,
                            !.found = FindMethod(calc.in, calc.klass, name)]
  /\ UNCHANGED lox

\* klass->Arity()
CallArity ==
  /\ calc.op = "none"
  /\ calc' = [calc EXCEPT !.op = "arity", !.arity = Arity(calc.in, calc.klass)]
  /\ UNCHANGED lox

\* klass->Call(interpreter, arguments), with as many arguments as the call
\* visitor has checked: Arity().
CallClass ==
  /\ calc.op = "none"
  /\ \E r \in {LoxClassCall(calc.in, calc.klass,
                            [i \in 1..Arity(calc.in, calc.klass) |-> Nil])} :
       calc' = [calc EXCEPT !.op = "call", !.sig = r.sig, !.after = r.in]
  /\ UNCHANGED lox

NextClass ==
  \/ CallFindMethod
  \/ CallArity
  \/ CallClass

SpecClass == InitClass /\ [][NextClass]_vars

---------------------------------------------------------------------------
(* Truthiness *)

\* The values Object::IsTruthy documents as falsy.
Falsy(v) ==
  v \in {Nil, BoolObject(FALSE), IntObject(0), DoubleObject(DZero), StringObject("")}

---------------------------------------------------------------------------
(* Methods and initializers *)

\* C2: the `this` of a bound method is the instance the method was read
\* from, itself: every LoxFunction::Bind binds `this` to its receiver, and
\* the program that assigns a field through `this` in a method reads it back
\* through the instance (it prints 1).
C2_ThisIsTheReceiver ==
  /\ \A i \in 1..Len(lox.interpreter_.binds) :
       lox.interpreter_.binds[i].this = lox.interpreter_.binds[i].instance
  /\ lox.status = "exited" /\ lox.last.source = SourceNamed("method")
       => lox.interpreter_.output_ = << "1" >>

\* C3: a class call yields the fresh instance and runs init once, bound to
\* that same instance; the program whose init assigns this.x = 1 prints 1
\* for p.x.
C3_InitRunsOnTheNewInstance ==
  /\ \A i \in 1..Len(lox.interpreter_.news) :
       lox.interpreter_.news[i].this = lox.interpreter_.news[i].instance
  /\ lox.status = "exited" /\ lox.last.source = SourceNamed("init")
       => lox.interpreter_.output_ = << "1" >>

---------------------------------------------------------------------------
(* Environments *)

\* The environment env lies on the chain of enclosing links that starts at
\* from.
RECURSIVE InChain(_, _, _)
InChain(in, from, env) ==
  /\ from # 0
  /\ \/ from = env
     \/ InChain(in, in.envs[from].enclosing, env)

\* C4: every block, function body and method body that has ended, normally,
\* by a RuntimeError or by a Return, left the interpreter's current
\* environment the one that was current before it began, and its own
\* environment, which holds what was defined inside, is not on that
\* environment's chain; between runs the current environment is the global
\* one.
C4_EnvironmentRestored ==
  /\ \A i \in 1..Len(lox.interpreter_.blocks) :
       LET b == lox.interpreter_.blocks[i]
       IN /\ b.after = b.previous
          /\ ~InChain(lox.interpreter_, b.after, b.environment)
  /\ lox.status \in {"start", "prompt", "exited"}
       => lox.interpreter_.environment_ = Globals

\* One run in which a block was left by a Return, a function body was left
\* by that Return and a later block was left by a RuntimeError.
C4_LeftByReturnAndByError ==
  /\ \E i \in 1..Len(lox.interpreter_.blocks) :
       lox.interpreter_.blocks[i].exit = "return"
  /\ \E i \in 1..Len(lox.interpreter_.blocks) :
       lox.interpreter_.blocks[i].exit = "error"
  /\ lox.interpreter_.output_ =
       << "1", "RuntimeError: Undefined variable 'nope'.", "[line 1]" >>

\* C5: a closure reads and assigns the variables of the scope it was
\* declared in, so the counter made by makeCounter counts: its two calls
\* print 1 and 2.
C5_CounterCounts ==
  lox.status = "exited" /\ lox.last.source = SourceNamed("counter")
    => lox.interpreter_.output_ = << "1", "2" >>

\* C6: in scenario S1 both calls of show() print the global value.
C6_S1PrintsGlobalTwice ==
  lox.status = "exited" /\ lox.last.source = SourceNamed("s1")
    => lox.interpreter_.output_ = << "global", "global" >>

---------------------------------------------------------------------------
(* Arithmetic and equality *)

\* The exact value of a op b.
Exact(op, a, b) ==
  CASE op = "+" -> DAdd(ToDouble(a), ToDouble(b))
    [] op = "-" -> DSub(ToDouble(a), ToDouble(b))
    [] op = "*" -> DMul(ToDouble(a), ToDouble(b))

\* The integer x where x fits int32_t, the float x otherwise.
Promoted(x) == IF DIsInt32(x) THEN IntObject(DToInt(x)) ELSE DoubleObject(x)

\* C7: for integers a and b and op among +, - and *, a op b is the integer
\* of the exact result where that fits 32 signed bits, and otherwise the
\* float of the exact result, which is float(a) op float(b); the negation of
\* an integer is 0 - it, a float for INT_MIN.
C7_IntegerToFloatPromotion ==
  /\ calc.op \in {"+", "-", "*"} /\ IsInteger(calc.left) /\ IsInteger(calc.right)
       => calc.result = Value(Promoted(Exact(calc.op, calc.left.n, calc.right.n)))
  /\ calc.op = "negate" /\ IsInteger(calc.left)
       => calc.result = Value(Promoted(Exact("-", 0, calc.left.n)))

\* INT_MAX + 1 has given the float 2^31.
C7_SumPromoted ==
  /\ calc.op = "+"
  /\ calc.left = IntObject(IntMax)
  /\ calc.right = IntObject(1)
  /\ calc.result = Value(DoubleObject(DMake(32768, 0, 0)))

Numeric(v) == v.tag \in {"int", "double"}

NumericValue(v) == IF v.tag = "int" THEN ToDouble(v.n) ELSE v.d

\* What a == b is to be.
Same(a, b) ==
  IF Numeric(a) /\ Numeric(b) THEN NumericValue(a) = NumericValue(b)
  ELSE IF a.tag # b.tag THEN FALSE
  ELSE a.n = b.n /\ a.s = b.s

\* C8: a == b is true for two numbers exactly when their numeric values are
\* equal, false for two values of different tags that are not both numbers,
\* and true for two values of one tag exactly when their payloads are
\* equal; a != b is its negation.
C8_Equality ==
  /\ calc.op = "==" => calc.result = Value(BoolObject(Same(calc.left, calc.right)))
  /\ calc.op = "!=" => calc.result = Value(BoolObject(~Same(calc.left, calc.right)))

\* 10 == 10.0 has been found true.
C8_IntegerEqualsFloat ==
  /\ calc.op = "=="
  /\ calc.left = IntObject(10)
  /\ calc.right = DoubleObject(ToDouble(10))
  /\ calc.result = Value(BoolObject(TRUE))

---------------------------------------------------------------------------
(* The phases of a run *)

\* What Resolver would report for the statements of the source numbered id.
ResolverReports(id) ==
  ResolveStatements(NewResolver, Sources[id].statements, 1).reports

\* C9: a source text for which the resolver reports an error is not
\* executed: Interpret is not called on it and it prints nothing.
C9_ResolverErrorStopsTheRun ==
  /\ lox.last.source # 0
  /\ Sources[lox.last.source].scan_reports = << >>
  /\ Sources[lox.last.source].parse_reports = << >>
  /\ ResolverReports(lox.last.source) # << >>
  => /\ ~lox.last.invoked
     /\ lox.lines = 0 => lox.interpreter_.output_ = << >>

\* What the scanner and the parser print for a source text before
\* Lox::Run returns for their errors.
ErrorReports(source) ==
  IF source.scan_reports # << >> THEN source.scan_reports ELSE source.parse_reports

\* C10: a Run of a source text for which the scanner or the parser reports
\* an error does not call Interpret, does not start the parser after a
\* report of the scanner, and leaves the interpreter as it was but for the
\* reports printed: no statement of the text is executed.
C10_ErrorStopsBeforeInterpret ==
  [][lox'.interpreter_.run # lox.interpreter_.run
       /\ ErrorReports(Sources[lox'.last.source]) # << >>
     => /\ ~lox'.last.invoked
        /\ Sources[lox'.last.source].scan_reports # << >> => ~lox'.last.parsed
        /\ lox'.had_error \/ lox'.status = "prompt"
        /\ lox'.interpreter_ =
             [lox.interpreter_ EXCEPT
                !.run = @ + 1,
                !.fuel = MaxFuel,
                !.output_ = @ \o ErrorReports(Sources[lox'.last.source])]]_vars

\* A file with a lexical error after a print statement has been run: the
\* report is all its output and the exit code is EX_DATAERR.
C10_LexErrorFileExits ==
  /\ lox.status = "exited"
  /\ lox.last.source = SourceNamed("lexerror")
  /\ ~lox.last.invoked
  /\ lox.exit_code = EX_DATAERR
  /\ lox.interpreter_.output_ = << "[line 1] Error: Unexpected character." >>

---------------------------------------------------------------------------
(* Runtime errors and returns *)

\* The interpreter as Lox::Run hands it to Interpret.
Started(in) == [in EXCEPT !.run = @ + 1, !.fuel = MaxFuel]

\* How the first k of the statements end when they are executed from in.
TopLevel(in, statements, k) == InterpretStatements(in, SubSeq(statements, 1, k), 1)

\* C11: when the k-th top-level statement of a program is the first one to
\* raise a RuntimeError, the run leaves the interpreter as that statement
\* left it with exactly one report (what() and the line) added to the
\* output, had_runtime_error is set, had_error is as before, no later
\* statement has had an effect and the driver goes on after Interpret (to
\* the exit in file mode, to the next line at the prompt).
C11_RuntimeErrorCaughtOnce ==
  [][lox'.interpreter_.run # lox.interpreter_.run /\ lox'.last.invoked
     => \A k \in 1..Len(Sources[lox'.last.source].statements) :
          LET statements == Sources[lox'.last.source].statements
              before == TopLevel(Started(lox.interpreter_), statements, k - 1)
              r == TopLevel(Started(lox.interpreter_), statements, k)
          IN before.sig = "ok" /\ r.sig = "error"
             => /\ lox'.interpreter_ =
                     [r.in EXCEPT !.output_ = @ \o << r.msg, "[line 1]" >>]
                /\ lox'.had_runtime_error
                /\ lox'.had_error = lox.had_error
                /\ lox'.status \in {"exited", "prompt"}]_vars

\* The file { var x = 1; print nope; } print "after"; has been run: the
\* report is all its output, "after" was not printed, and the exit code is
\* EX_SOFTWARE.
C11_ErrorBeforeAfter ==
  /\ lox.status = "exited"
  /\ lox.last.source = SourceNamed("blockerror")
  /\ lox.had_runtime_error /\ ~lox.had_error
  /\ lox.exit_code = EX_SOFTWARE
  /\ lox.interpreter_.output_ =
       << "RuntimeError: Undefined variable 'nope'.", "[line 1]" >>

\* C12: every call whose body was left by a Return, from whatever depth of
\* blocks, ifs and loops, has ended normally in its caller with the value
\* of the Return (nil when it has none; `this` for an initializer), and the
\* caller has gone on: in the program "return" nothing after either return
\* is printed, f's value reaches g and g's value (nil) reaches the top
\* level, which goes on too.
C12_ReturnEndsTheCall ==
  /\ \A i \in 1..Len(lox.interpreter_.calls) :
       LET c == lox.interpreter_.calls[i]
           f == lox.interpreter_.callables[c.callee]
       IN c.exit = "return"
          => /\ c.sig = "ok"
             /\ c.val = IF f.is_initializer
                        THEN lox.interpreter_.envs[f.closure].values["this"]
                        ELSE IF c.has THEN c.returned ELSE Nil
  /\ lox.status = "exited" /\ lox.last.source = SourceNamed("return")
       => lox.interpreter_.output_ = << "r", "g goes on", "nil", "top" >>

\* The program "return" has been run to its end: f was left by the return
\* in its innermost block and g by its return without a value.
C12_ReturnFromNestedBlocks ==
  /\ lox.status = "exited"
  /\ lox.last.source = SourceNamed("return")
  /\ Len(lox.interpreter_.calls) = 2
  /\ lox.interpreter_.calls[1].exit = "return"
  /\ lox.interpreter_.calls[1].val = StringObject("r")
  /\ lox.interpreter_.calls[2].exit = "return"
  /\ ~lox.interpreter_.calls[2].has
  /\ lox.interpreter_.output_ = << "r", "g goes on", "nil", "top" >>

\* C13: no run of a source text ends Interpret by a Return that no call
\* has caught: the execution of the top-level statements never ends with
\* the Return signal.
C13_ReturnNeverEscapes ==
  [][lox'.interpreter_.run # lox.interpreter_.run /\ lox'.last.invoked
     => LET statements == Sources[lox'.last.source].statements
        IN TopLevel(Started(lox.interpreter_), statements, Len(statements)).sig
             # "return"]_vars

---------------------------------------------------------------------------
(* The interactive prompt and the exit status *)

\* C14: at the prompt, every line after the first starts with had_error
\* clear and is scanned, parsed and, when it has no lexical or syntactic
\* error, interpreted; whatever the earlier lines were, the session goes on
\* to the next prompt, and every global name bound before the line is bound
\* after it.
C14_PromptSessionGoesOn ==
  [][lox.status = "prompt" /\ lox'.interpreter_.run # lox.interpreter_.run
     => /\ ~lox.had_error
        /\ lox'.status = "prompt"
        /\ ErrorReports(Sources[lox'.last.source]) = << >> => lox'.last.invoked
        /\ \A name \in DOMAIN lox.interpreter_.envs[Globals].values :
             name \in DOMAIN lox'.interpreter_.envs[Globals].values]_vars

\* C15: after a file has been run, the exit code is EX_DATAERR exactly when
\* the scanner, the parser or the resolver has an error to report for it,
\* EX_SOFTWARE exactly when none of them has and a runtime error occurred,
\* and 0 otherwise.
C15_ExitStatus ==
  lox.status = "exited" /\ lox.lines = 0 /\ lox.last.source # 0
    => LET rejected == \/ ErrorReports(Sources[lox.last.source]) # << >>
                       \/ ResolverReports(lox.last.source) # << >>
       IN lox.exit_code = IF rejected THEN EX_DATAERR
                          ELSE IF lox.had_runtime_error THEN EX_SOFTWARE
                          ELSE 0

---------------------------------------------------------------------------
(* The minus sign of a number *)

IntMinText == << "-", "2", "1", "4", "7", "4", "8", "3", "6", "4", "8" >>

\* The positions of the text at which a '-' stands immediately before a
\* digit, and those at which a '-' stands before anything else.
MinusBeforeDigit(text) ==
  {i \in 1..Len(text) : text[i] = "-" /\ i < Len(text) /\ IsDigit(text[i + 1])}

MinusAlone(text) ==
  {i \in 1..Len(text) : text[i] = "-" /\ ~(i < Len(text) /\ IsDigit(text[i + 1]))}

\* The tokens of the type whose lexeme begins with the character.
TokensBeginning(tokens, type, c) ==
  {t \in 1..Len(tokens) :
     /\ tokens[t].type = type
     /\ tokens[t].lexeme # << >>
     /\ tokens[t].lexeme[1] = c}

\* C16: a '-' immediately before a digit is scanned, whatever precedes it,
\* as the first character of one NUMBER token that covers the digits too,
\* and every other '-' as a MINUS token; the token -2147483648 is the int
\* INT_MIN; `-2147483648 - 1` evaluates to the double INT_MIN - 1; and
\* `-2147483648 -1` is no subtraction: the parser reports the token -1 and
\* the statement is a null statement.
C16_MinusDigitIsOneNumber ==
  /\ calc.op = "scan" =>
       /\ Cardinality(TokensBeginning(calc.tokens, "NUMBER", "-"))
            = Cardinality(MinusBeforeDigit(calc.text))
       /\ Cardinality(TokensBeginning(calc.tokens, "MINUS", "-"))
            = Cardinality(MinusAlone(calc.text))
       /\ \A t \in TokensBeginning(calc.tokens, "NUMBER", "-") :
            /\ Len(calc.tokens[t].lexeme) > 1
            /\ \A i \in 2..Len(calc.tokens[t].lexeme) :
                 IsDigit(calc.tokens[t].lexeme[i]) \/ calc.tokens[t].lexeme[i] = "."
       /\ \A t \in 1..Len(calc.tokens) :
            calc.tokens[t].lexeme = IntMinText =>
              /\ calc.tokens[t].type = "NUMBER"
              /\ calc.tokens[t].literal = IntObject(IntMin)
  /\ calc.op = "evaluate"
       /\ calc.text = IntMinText \o << " ", "-", " ", "1", ";" >> =>
       /\ calc.statements
            = << ExprStmt(Binary(Literal(IntObject(IntMin)), "-",
                                 Literal(IntObject(1)))) >>
       /\ calc.result = Value(DoubleObject(DSub(ToDouble(IntMin), ToDouble(1))))
  /\ calc.op = "parse" /\ calc.text = IntMinText \o << " ", "-", "1", ";" >> =>
       /\ calc.statements = << NullStmt >>
       /\ calc.reports = << "[line 1] Error at '-1': Expect ';' after expression." >>

\* `-2147483648 - 1;` has been evaluated to the double -2147483649.
C16_IntMinMinusOne ==
  /\ calc.op = "evaluate"
  /\ calc.text = IntMinText \o << " ", "-", " ", "1", ";" >>
  /\ calc.result = Value(DoubleObject(DMake(-32769, 65535, 0)))

---------------------------------------------------------------------------
(* Environment: assignment and the calls with a distance *)

\* The environments of the chain of env that bind the name, from env
\* outwards.
RECURSIVE Binders(_, _, _)
Binders(in, env, name) ==
  IF env = 0 THEN << >>
  ELSE (IF name \in DOMAIN in.envs[env].values THEN << env >> ELSE << >>)
         \o Binders(in, in.envs[env].enclosing, name)

\* C18: assigning to a name that no environment of the chain binds throws
\* the undefined-variable RuntimeError and changes no environment; assigning
\* to a bound name throws nothing and changes the innermost environment
\* that binds it, in that one binding, and no other environment.
C18_AssignUpdatesInnermostBinding ==
  calc.op = "assign" =>
    IF Binders(calc.in, calc.env, calc.name) = << >>
    THEN /\ calc.got = Throw(UndefinedVariable(calc.name))
         /\ calc.after = calc.in
    ELSE /\ calc.got = Value(Nil)
         /\ calc.after.envs =
              [calc.in.envs EXCEPT
                 ![Head(Binders(calc.in, calc.env, calc.name))].values[calc.name] =
                   calc.value]

\* The name has been assigned from an environment that does not bind it,
\* two links below the one that does, and from one whose chain does not.
C18_AssignedTwoLinksOut ==
  /\ calc.op = "assign"
  /\ calc.env = 3
  /\ Binders(calc.in, calc.env, calc.name) = << 1 >>
  /\ calc.after.envs[1].values[calc.name] = calc.value

\* C17: get_at and assign_at read and write the environment `distance`
\* links above the starting one and no other: get_at returns a value only
\* when that environment binds the name, and then that binding's value;
\* assign_at leaves every other environment as it was.
C17_OnlyTheTargetScope ==
  LET target == Ancestor(calc.in, calc.env, calc.distance)
  IN /\ calc.op = "get_at" /\ target # 0 /\ calc.got.kind = "ok" =>
          /\ calc.name \in DOMAIN calc.in.envs[target].values
          /\ calc.got.val = calc.in.envs[target].values[calc.name]
     /\ calc.op = "assign_at" /\ target # 0 =>
          \A e \in 1..Len(calc.in.envs) :
            e # target => calc.after.envs[e] = calc.in.envs[e]

---------------------------------------------------------------------------
(* The resolved depths *)

C20_GlobalsLeftUnresolved ==
  calc.statements \in {ProgramGlobalLater, ProgramGlobalInBlock} =>
    /\ calc.op = "resolve" =>
         /\ ~calc.rs.thrown
         /\ 1 \notin DOMAIN calc.rs.locals_
         /\ calc.rs.reports = << >>
    /\ calc.op = "interpret" => lox.interpreter_.output_ = << "1" >>

---------------------------------------------------------------------------
(* The resolver's reports *)

ThisOutsideClass == "Can't use 'this' outside of a class."

\* C21: the resolver reports "Can't use 'this' outside of a class." for a
\* `this` outside every class body (`print this;`) and reports nothing for
\* the `this` of a method (`{ class A { m() { print this; } } A().m(); }`).
C21_ThisOutsideClassReported ==
  calc.op = "resolve" =>
    /\ calc.statements = ProgramThisOutside => calc.rs.reports = << ThisOutsideClass >>
    /\ calc.statements = ProgramThis => calc.rs.reports = << >>

ReturnFromTopLevel == "Can't return from top-level code."
ReturnValueFromInitializer == "Can't return a value from an initializer."

\* C22: the resolver reports a `return` outside every function and a
\* `return` with a value directly in an initializer, and nothing for a
\* bare `return;` in an initializer, for a return in a function or method,
\* or for a return with a value in a function nested in an initializer.
C22_ReturnReports ==
  calc.op = "resolve" =>
    \A context \in ReturnContexts, value \in BOOLEAN, n \in 0..MaxNest :
      calc.statements = ReturnProgram(context, value, n) =>
        /\ ~calc.rs.thrown
        /\ calc.rs.reports =
             CASE context = "top" -> << ReturnFromTopLevel >>
               [] context \in {"initializer", "class_in_method"} /\ value ->
                    << ReturnValueFromInitializer >>
               [] OTHER -> << >>

\* `class A { init() { {{ return 1; }} } }` has been resolved and reported.
C22_ValueFromInitializerReported ==
  /\ calc.op = "resolve"
  /\ calc.statements = ReturnProgram("initializer", TRUE, MaxNest)
  /\ calc.rs.reports = << ReturnValueFromInitializer >>

\* C23: a block, function, method or class that the resolver has finished
\* left current_function_, current_class_ and the depth of the scope stack
\* as they were before it; after the pass the stack is empty and both are
\* NONE.
C23_ResolverStateRestored ==
  calc.op = "resolve" /\ ~calc.rs.thrown =>
    /\ \A i \in 1..Len(calc.rs.declarations) :
         /\ calc.rs.declarations[i].function_after
              = calc.rs.declarations[i].function_before
         /\ calc.rs.declarations[i].class_after
              = calc.rs.declarations[i].class_before
         /\ calc.rs.declarations[i].scopes_after
              = calc.rs.declarations[i].scopes_before
    /\ calc.rs.scopes_ = << >>
    /\ calc.rs.current_function_ = "NONE"
    /\ calc.rs.current_class_ = "NONE"

\* The resolver has finished an initializer of a class declared in a method
\* of another class, below MaxNest blocks, and then that class.
C23_ClassInMethodFinished ==
  /\ calc.op = "resolve"
  /\ calc.statements = ReturnProgram("class_in_method", FALSE, MaxNest)
  /\ \E i \in 1..Len(calc.rs.declarations) :
       /\ calc.rs.declarations[i].kind = "INITIALIZER"
       /\ calc.rs.declarations[i].function_before = "METHOD"
       /\ calc.rs.declarations[i].scopes_before = 3
       /\ calc.rs.declarations[i + 1].kind = "CLASS"
       /\ calc.rs.declarations[i + 1].class_after = "CLASS"
       /\ calc.rs.declarations[i + 1].scopes_after = 2

---------------------------------------------------------------------------
(* Calls *)

\* The run of the source with the name has ended.
Ended(name) == lox.status = "exited" /\ lox.last.source = SourceNamed(name)

\* C24: a call evaluates its callee, then its arguments from left to right,
\* and then runs the body (h()(a(), b()) prints h, a, b, g); a callee that
\* is no callable and a number of arguments that is not the arity end the
\* call, after the arguments, with the runtime error, without a call of the
\* callee, an environment for it or, for a class, an instance.
C24_CallChecks ==
  /\ Ended("callorder") =>
       /\ lox.interpreter_.output_ = << "h", "a", "b", "g" >>
       /\ Len(lox.interpreter_.calls) = 4
  /\ Ended("calltext") =>
       /\ lox.interpreter_.output_ =
            << "a", "RuntimeError: Can only call functions and classes.", "[line 1]" >>
       /\ Len(lox.interpreter_.calls) = 1
       /\ Len(lox.interpreter_.envs) = 2
  /\ Ended("callarity") =>
       /\ lox.interpreter_.output_ =
            << "a", "RuntimeError: Expected 2 arguments but got 1.", "[line 1]" >>
       /\ Len(lox.interpreter_.calls) = 1
       /\ Len(lox.interpreter_.envs) = 2
  /\ Ended("callclassarity") =>
       /\ lox.interpreter_.output_ =
            << "RuntimeError: Expected 1 arguments but got 0.", "[line 1]" >>
       /\ lox.interpreter_.calls = << >>
       /\ Len(lox.interpreter_.envs) = 1
       /\ lox.interpreter_.instances = << >>
       /\ lox.interpreter_.binds = << >>

\* g(a()) has ended with the arity error after a was called and printed.
C24_ArityErrorAfterArguments ==
  /\ Ended("callarity")
  /\ lox.had_runtime_error
  /\ lox.interpreter_.output_[1] = "a"
  /\ lox.interpreter_.calls[1].val = IntObject(1)

---------------------------------------------------------------------------
(* Method lookup along the superclass chain *)

\* The class and its superclasses, nearest first.
RECURSIVE SuperChain(_, _)
SuperChain(in, klass) ==
  IF klass = 0 THEN << >>
  ELSE << klass >> \o SuperChain(in, in.callables[klass].superclass)

\* The classes of the chain that define the name, by their place in it.
Definers(in, klass, name) ==
  {i \in 1..Len(SuperChain(in, klass)) :
     name \in DOMAIN in.callables[SuperChain(in, klass)[i]].methods}

\* The nearest class of the chain that defines the name.
Nearest(in, klass, name) ==
  SuperChain(in, klass)[CHOOSE i \in Definers(in, klass, name) :
                          \A j \in Definers(in, klass, name) : i <= j]

\* C25: FindMethod gives the method of the nearest class of the superclass
\* chain that defines the name, and nothing when none does; Arity is the
\* number of parameters of the init found so, 0 without one; a class call
\* runs that init and no other.
C25_FindMethodNearest ==
  /\ calc.op = "find_method" =>
       IF Definers(calc.in, calc.klass, calc.name) = {} THEN calc.found = 0
       ELSE calc.found = calc.in.callables[Nearest(calc.in, calc.klass, calc.name)].methods[calc.name]
  /\ calc.op = "arity" =>
       IF Definers(calc.in, calc.klass, "init") = {} THEN calc.arity = 0
       ELSE calc.in.callables[Nearest(calc.in, calc.klass, "init")].name
              = ClassName(calc.arity)
  /\ calc.op = "call" =>
       /\ calc.sig = "ok"
       /\ IF Definers(calc.in, calc.klass, "init") = {}
          THEN calc.after.output_ = << >> /\ calc.after.calls = << >>
          ELSE /\ calc.after.output_ =
                    << calc.in.callables[Nearest(calc.in, calc.klass, "init")].name >>
               /\ Len(calc.after.calls) = 1

\* A class without init whose superclass and whose superclass's superclass
\* both define init has been called, and the superclass's init ran.
C25_InheritedInitRan ==
  /\ calc.op = "call"
  /\ Definers(calc.in, calc.klass, "init") = {2, 3}
  /\ Len(calc.after.calls) = 1
  /\ calc.after.output_ = << ClassName(Len(SuperChain(calc.in, calc.klass)) - 1) >>

---------------------------------------------------------------------------
(* What a call returns *)

\* C26: init called on an instance returns that instance, whether its body
\* ends or executes `return;`, and a function whose body ends or executes
\* `return;` returns nil.
C26_InitReturnsTheInstance ==
  Ended("initagain") =>
    lox.interpreter_.output_ = << "true", "true", "nil", "nil" >>

---------------------------------------------------------------------------
(* Division *)

\* q is the quotient of a by b truncated toward zero: what is left of a has
\* the sign of a and is smaller than b in magnitude.
Truncated(a, b, q) ==
  LET r == a - q * b
  IN \/ r = 0
     \/ r > 0 /\ a > 0 /\ (b > 0 => r < b) /\ (b < 0 => -r > b)
     \/ r < 0 /\ a < 0 /\ (b > 0 => -r < b) /\ (b < 0 => r > b)

\* C27: the quotient of two integers, the divisor not 0, is the integer
\* that is the quotient truncated toward zero; with a double among the
\* operands the quotient is a double.
C27_IntegerDivisionTruncates ==
  calc.op = "/" =>
    /\ IsInteger(calc.left) /\ IsInteger(calc.right) /\ calc.right.n # 0 =>
         /\ calc.result.kind = "ok"
         /\ IsInteger(calc.result.val)
         /\ Truncated(calc.left.n, calc.right.n, calc.result.val.n)
    /\ /\ AsDouble(calc.left).has /\ AsDouble(calc.right).has
       /\ IsDouble(calc.left) \/ IsDouble(calc.right)
       => calc.result.kind = "ok" /\ IsDouble(calc.result.val)

---------------------------------------------------------------------------
(* The chain of environments *)

\* The environment reached from env by following enclosing at most steps
\* times, 0 once the chain has ended.
RECURSIVE Outward(_, _, _)
Outward(in, env, steps) ==
  IF steps = 0 \/ env = 0 THEN env
  ELSE Outward(in, in.envs[env].enclosing, steps - 1)

\* C28: from every environment the enclosing links lead to the globals in
\* fewer steps than there are environments, and the globals have no
\* enclosing environment.
C28_ChainsEndAtGlobals ==
  LET in == lox.interpreter_
  IN /\ in.envs[Globals].enclosing = 0
     /\ \A env \in 1..Len(in.envs) :
          \E steps \in 0..(Len(in.envs) - 1) : Outward(in, env, steps) = Globals

\* A method with a block in its body has been bound and called: the block's
\* environment encloses the call's, which encloses the one that holds
\* `this`, which encloses the globals.
C28_BlockInCallInThis ==
  LET in == lox.interpreter_
  IN /\ Ended("blockinmethod")
     /\ in.output_ = << "m" >>
     /\ \E inner \in 1..Len(in.blocks), body \in 1..Len(in.blocks),
           bind \in 1..Len(in.binds) :
          LET this == in.callables[in.binds[bind].method].closure
          IN /\ in.envs[in.blocks[inner].environment].enclosing
                  = in.blocks[body].environment
             /\ in.envs[in.blocks[body].environment].enclosing = this
             /\ this # Globals
             /\ in.envs[this].enclosing = Globals

---------------------------------------------------------------------------
(* The lifetime of declarations *)

\* The functions that are the values of global names.
GlobalFunctions(in) ==
  {in.envs[Globals].values[name].n :
     name \in {x \in DOMAIN in.envs[Globals].values :
                 /\ in.envs[Globals].values[x].tag = "callable"
                 /\ in.callables[in.envs[Globals].values[x].n].kind = "function"}}

\* C29: at the prompt, the declaration of every function held by a global
\* name still exists, that is, it is not part of the statements of a Run
\* that has returned; and a line that calls f after a line that declared it
\* runs f's body and returns to the prompt.
C29_DeclarationsOutliveRuns ==
  LET in == lox.interpreter_
  IN /\ lox.status = "prompt" =>
          \A function \in GlobalFunctions(in) :
            in.callables[function].declaration.run \notin 1..in.run
     /\ /\ lox.last.source = SourceNamed("call f")
        /\ lox.last.invoked
        /\ "f" \in DOMAIN in.envs[Globals].values
        => lox.status = "prompt" /\ in.output_ = << "f" >>

---------------------------------------------------------------------------
(* The lifetime of classes *)

\* C30: after the name of its class has been given another value, an
\* instance still prints as an instance of that class and still gives the
\* class's methods, whether or not another name holds the class.
C30_ClassOutlivesItsName ==
  /\ lox.last.source = SourceNamed("classgone") /\ lox.last.invoked
       => lox.status = "exited" /\ lox.interpreter_.output_ = << "A instance" >>
  /\ lox.last.source = SourceNamed("classkept") /\ lox.last.invoked
       => /\ lox.status = "exited"
          /\ lox.interpreter_.output_ = << "A instance", "<fn m>" >>

============================================================================
